---- MODULE Spec2Model ----
(***************************************************************************)
(* Model of the useTwoPersonCall hook (session orchestration of a          *)
(* two-person call with manually exchanged connection codes).              *)
(*                                                                         *)
(* The hook is modelled from the revision in src/unnamed/part_001 (lines   *)
(* 1-815); src/app/hooks/useTwoPersonCall.ts carries the same signaling    *)
(* code with a plain JSON.parse of the pasted payload.                     *)
(*                                                                         *)
(* A hook instance (a peer) owns React state (role, phase, error, isBusy,  *)
(* offerPayload, answerPayload) and refs (pcRef, localStreamRef,           *)
(* dataChannelRef).  Async functions are tasks: a task is suspended at one *)
(* await and is resumed by the environment (getUserMedia settling, the     *)
(* RTCPeerConnection operations chain, the icegatheringstatechange event). *)
(* The RTCPeerConnection itself is the environment: its signaling state    *)
(* machine follows the WebRTC (JSEP) rules.                                *)
(***************************************************************************)
EXTENDS Integers, Sequences, FiniteSets, TLC

\* Hook instances.  Spec runs one instance; SpecA runs the two ends of a call.
Peers == {"A", "B"}

\* Calls of the hook's functions (startAsHost ... hangUp) in one run.
MaxCalls == 4
\* Async operations that may be suspended at the same time in one instance.
MaxTasks == 2
\* RTCPeerConnection objects constructed in one run.
MaxPc == 2
\* MediaStream objects handed out by getUserMedia in one run.
MaxStreams == 2
MaxGen == 2

GenIds == 1..MaxGen
TaskIds == 1..MaxTasks
PcIds == 1..MaxPc
StreamIds == 1..MaxStreams

----------------------------------------------------------------------------
\* Session descriptions and the payload text (Signaling Codec).

\* A description made by a pc is identified by the call that made it (calls
\* that both make one overlap, so their task slots differ).
NoDesc == [type |-> "none", id |-> 0]
OfferDesc(n) == [type |-> "offer", id |-> n]
AnswerDesc(n) == [type |-> "answer", id |-> n]

\* A payload text is a sequence of characters.  One character stands for the
\* member list of a description ("type":...,"sdp":...); the others are the
\* characters the parsing code distinguishes.
Ch(c) == [c |-> c, d |-> NoDesc]
LBrace == Ch("{")
RBrace == Ch("}")
Space == Ch(" ")
Bom == Ch("BOM")
Junk == Ch("x")
Members(d) == [c |-> "members", d |-> d]

EmptyText == << >>

\* a text that lacks the closing brace
StringifyUnclosed(d) == <<LBrace, Members(d)>>

\* JSON.stringify(pc.localDescription)
Stringify(d) == <<LBrace, Members(d), RBrace>>

IsBlank(ch) == ch \in {Space, Bom}

RECURSIVE TrimStart(_)
TrimStart(s) == IF s # << >> /\ IsBlank(Head(s)) THEN TrimStart(Tail(s)) ELSE s

RECURSIVE TrimEnd(_)
TrimEnd(s) ==
    IF s # << >> /\ IsBlank(s[Len(s)]) THEN TrimEnd(SubSeq(s, 1, Len(s) - 1)) ELSE s

\* String.prototype.trim: white space includes U+FEFF
Trim(s) == TrimEnd(TrimStart(s))

\* cleaned.replace(/^\uFEFF/, '')
StripBom(s) == IF s # << >> /\ Head(s) = Bom THEN Tail(s) ELSE s

\* cleaned.match(/\{[\s\S]*\}/): greedy, from the first "{" to the last "}"
BraceMatch(s) ==
    LET opens == {i \in 1..Len(s) : s[i] = LBrace}
        first == CHOOSE i \in opens : \A j \in opens : i <= j
        closes == {i \in 1..Len(s) : s[i] = RBrace /\ i > first}
        last_ == CHOOSE i \in closes : \A j \in closes : j <= i
    IN  IF opens = {} THEN s
        ELSE IF closes = {} THEN s
        ELSE SubSeq(s, first, last_)

ParseError == [type |-> "parse-error", id |-> 0]
\* the object {}: parses, but is no session description
EmptyObject == [type |-> "empty-object", id |-> 0]

\* a parser that accepts an object whose closing brace is missing
JsonParseUnclosed(s) ==
    LET body == SelectSeq(s, LAMBDA ch : ch # Space)
    IN  IF Len(body) >= 2 /\ body[1] = LBrace /\ body[2].c = "members"
        THEN body[2].d
        ELSE [type |-> "parse-error", id |-> 0]

\* JSON.parse on the characters of the model: an object is "{" members? "}",
\* JSON white space (not the BOM) is allowed around and inside it.
JsonParse(s) ==
    LET body == SelectSeq(s, LAMBDA ch : ch # Space)
    IN  IF Len(body) = 2 /\ body[1] = LBrace /\ body[2] = RBrace THEN EmptyObject
        ELSE IF /\ Len(body) = 3
                /\ body[1] = LBrace
                /\ body[2].c = "members"
                /\ body[3] = RBrace
             THEN body[2].d
        ELSE ParseError

\* The parsing block of applyRemoteOfferAndCreateAnswer / applyRemoteAnswer.
DecodePayload(text) == JsonParse(BraceMatch(StripBom(Trim(text))))

\* Texts a user may paste: the two codes of a session, the same with
\* surrounding white space or text, and texts that are no code.
PayloadInputs ==
    LET codes == {Stringify(OfferDesc(1)), Stringify(AnswerDesc(1))}
    IN  codes
        \cup {<<Junk, Space>> \o c \o <<Space>> : c \in codes}
        \cup {EmptyText, <<LBrace, RBrace>>, <<LBrace, Members(OfferDesc(1))>>}

----------------------------------------------------------------------------
\* State.

VARIABLES
    role,            \* useState<Role>: "none" (null), "host", "guest"
    phase,           \* useState<CallPhase>
    isBusy,          \* useState(false)
    offerPayload,    \* useState("")
    answerPayload,   \* useState("")
    pcRef,           \* useRef<RTCPeerConnection | null>: 0 or a PcId
    localStreamRef,  \* useRef<MediaStream | null>: 0 or a StreamId
    dataChannelRef,  \* useRef<RTCDataChannel | null>: 0 or the PcId carrying it
    recognitionRef,  \* useRef<SpeechRecognition | null>: 0 or the recognizer held
    effectPhase,     \* the phase the recognition effect last ran with
    recTimer,        \* a startRecognitionWithDelay timer is pending
    pcs,             \* the RTCPeerConnection objects
    streams,         \* the MediaStream objects: "none", "live", "stopped"
    tasks,           \* suspended async calls of each instance
    nCalls,          \* calls of the hook's functions made so far
    remoteCaption,   \* useState(""): the text of the last caption received
    remoteCaptionLanguageRef,  \* useRef("en-US")
    remoteCaptionTranslated,   \* useState(""): the translation displayed
    translationLanguage,       \* useState<LanguageCode>("en")
    isTranslating,   \* useState(false)
    translationTimeoutRef,     \* the pending debounce timer and its arguments
    debounceTimers,  \* the setTimeout callbacks of translateRemoteCaption pending
    translations,    \* translateText calls waiting for their response
    closureLanguage, \* translationLanguage as captured by channel.onmessage
    nIssued,         \* translateText calls made so far
    nMessages,       \* caption channel messages received so far
    captionsLanguage,  \* useState("en-US")
    recognizers,     \* the SpeechRecognition objects the effect has built
    localCaption,    \* useState(""): the text of the last recognizer result
    nResults,        \* recognizer results delivered so far
    last             \* the step just taken: operation, instance, outcome ("ok",
                     \* "pending", "fail"; the state read by the transport
                     \* handler), whether it belongs to a torn-down session, and
                     \* its setError call ("none": no call; the hook never
                     \* reads the error state, so only the writes are kept)

hookVars == <<role, phase, isBusy, offerPayload, answerPayload>>
refVars == <<pcRef, localStreamRef, dataChannelRef>>
recVars == <<recognitionRef, effectPhase, recTimer>>
relayVars == <<remoteCaption, remoteCaptionLanguageRef, remoteCaptionTranslated,
               translationLanguage, isTranslating, translationTimeoutRef,
               translations, closureLanguage, nIssued, nMessages,
               debounceTimers>>
speechVars == <<captionsLanguage, recognizers, localCaption, nResults>>
vars == <<role, phase, isBusy, offerPayload, answerPayload,
          pcRef, localStreamRef, dataChannelRef,
          recognitionRef, effectPhase, recTimer,
          pcs, streams, tasks, nCalls, relayVars, speechVars, last>>

Phases == {"idle", "media-ready", "waiting-offer", "waiting-answer", "connected", "ended"}

NoTask == [op |-> "none", at |-> "none", pc |-> 0, desc |-> NoDesc, hung |-> FALSE]

\* The translation displayed: a text and the language it is in; "" when none.
NoTranslation == [text |-> "", lang |-> ""]

\* translationTimeoutRef: no timer pending, or the arguments of the
\* translateRemoteCaption call whose timer is pending
NoTimer == [text |-> "", src |-> "", tgt |-> ""]

\* A SpeechRecognition object built by the recognition effect: its lang,
\* whether it is recognising, whether its handlers are attached, and the
\* timers its closures have pending ("delay": the 1000 ms of
\* startRecognitionWithDelay, "retry": its 2000 ms; "restart": the 500 ms
\* of onend, "late": its 2000 ms), and the 500 ms timers of sendCaption
\* with the utterance each one retries.
NoRecognizer ==
    [made |-> FALSE, lang |-> "en-US", active |-> FALSE, handlers |-> FALSE,
     startTimer |-> "none", restartTimer |-> "none", sendTimers |-> {}]

NewPc ==
    [made |-> FALSE, owner |-> "A", closed |-> FALSE,
     localDescription |-> NoDesc, remoteDescription |-> NoDesc,
     signalingState |-> "stable",
     iceGatheringState |-> "new",
     iceConnectionState |-> "new",
     icePending |-> "none",
     senders |-> {},
     chain |-> << >>,
     sent |-> << >>,
     extraChannel |-> FALSE]

Init ==
    /\ role = [p \in Peers |-> "none"]
    /\ phase = [p \in Peers |-> "idle"]
    /\ isBusy = [p \in Peers |-> FALSE]
    /\ offerPayload = [p \in Peers |-> EmptyText]
    /\ answerPayload = [p \in Peers |-> EmptyText]
    /\ pcRef = [p \in Peers |-> 0]
    /\ localStreamRef = [p \in Peers |-> 0]
    /\ dataChannelRef = [p \in Peers |-> 0]
    /\ recognitionRef = [p \in Peers |-> 0]
    /\ effectPhase = [p \in Peers |-> "idle"]
    /\ recTimer = [p \in Peers |-> FALSE]
    /\ pcs = [k \in PcIds |-> NewPc]
    /\ streams = [s \in StreamIds |-> "none"]
    /\ tasks = [p \in Peers |-> [t \in TaskIds |-> NoTask]]
    /\ nCalls = 0
    /\ remoteCaption = [p \in Peers |-> ""]
    /\ remoteCaptionLanguageRef = [p \in Peers |-> "en-US"]
    /\ remoteCaptionTranslated = [p \in Peers |-> NoTranslation]
    /\ translationLanguage = [p \in Peers |-> "en"]
    /\ isTranslating = [p \in Peers |-> FALSE]
    /\ translationTimeoutRef = [p \in Peers |-> NoTimer]
    /\ debounceTimers = [p \in Peers |-> {}]
    /\ translations = [p \in Peers |-> {}]
    /\ closureLanguage = [p \in Peers |-> "en"]
    /\ nIssued = [p \in Peers |-> 0]
    /\ nMessages = 0
    /\ captionsLanguage = [p \in Peers |-> "en-US"]
    /\ recognizers = [p \in Peers |-> [g \in GenIds |-> NoRecognizer]]
    /\ localCaption = [p \in Peers |-> ""]
    /\ nResults = 0
    /\ last = [op |-> "init", peer |-> "A", out |-> "ok", setError |-> "none",
               hung |-> FALSE]

----------------------------------------------------------------------------
\* Helpers over the objects.

FreeTasks(p) == {t \in TaskIds : tasks[p][t].op = "none"}
FreeTask(p) == CHOOSE t \in FreeTasks(p) : \A u \in FreeTasks(p) : t <= u

UnmadePcs == {k \in PcIds : ~pcs[k].made}
FreshPc == CHOOSE k \in UnmadePcs : \A j \in UnmadePcs : k <= j

UnusedStreams == {s \in StreamIds : streams[s] = "none"}
FreshStream == CHOOSE s \in UnusedStreams : \A u \in UnusedStreams : s <= u

PendingMedia ==
    {pt \in Peers \X TaskIds : tasks[pt[1]][pt[2]].at = "getUserMedia"}

\* A continuation that runs as a microtask: nothing else runs before it.
MicroPending ==
    \E p \in Peers, t \in TaskIds : tasks[p][t].at \in {"afterMedia", "gathered"}

\* A render whose phase differs from the phase of the last commit: React
\* commits it and runs the recognition effect before the next task is taken.
EffectPending == \E p \in Peers : effectPhase[p] # phase[p]

Settled == ~MicroPending /\ ~EffectPending

\* a step that calls setError(msg) ends the call as failed, except in
\* startLocalMedia, whose caller goes on
Step(op, p, out, hung) ==
    [op |-> op, peer |-> p, out |-> out, setError |-> "none", hung |-> hung]

Failed(op, p, msg, hung) ==
    [op |-> op, peer |-> p, out |-> "fail", setError |-> msg, hung |-> hung]

\* cleanupPeerConnection stops the tracks of the senders and of the local stream
StopTracks(ss) == [s \in StreamIds |-> IF s \in ss THEN "stopped" ELSE streams[s]]

\* pc.close().  Of a closed pc only the operations still in its chain and
\* the queued state-change task are reachable; the rest is dropped.
ClosePc(pc) ==
    [NewPc EXCEPT !.made = TRUE,
                  !.owner = pc.owner,
                  !.closed = TRUE,
                  !.signalingState = "closed",
                  !.iceConnectionState = "closed",
                  !.icePending = pc.icePending,
                  !.chain = pc.chain]

\* new RTCPeerConnection(...) as wired by ensurePeerConnection
ConstructPc(p) ==
    [NewPc EXCEPT !.made = TRUE,
                  !.owner = p,
                  !.senders = IF localStreamRef[p] # 0 THEN {localStreamRef[p]} ELSE {}]

CanEnsure(p) == pcRef[p] # 0 \/ UnmadePcs # {}

\* ensurePeerConnection: the handle it returns, and the objects afterwards
ensurePeerConnection(p) == IF pcRef[p] # 0 THEN pcRef[p] ELSE FreshPc

\* an ensurePeerConnection that constructs a connection although one is held
PcsConstructedAnyway(p) ==
    IF UnmadePcs # {} THEN [pcs EXCEPT ![FreshPc] = ConstructPc(p)] ELSE pcs

PcsEnsured(p) ==
    IF pcRef[p] # 0 THEN pcs ELSE [pcs EXCEPT ![FreshPc] = ConstructPc(p)]

IsIceUp(s) == s \in {"connected", "completed"}
IsIceDown(s) == s \in {"disconnected", "failed", "closed"}

----------------------------------------------------------------------------
\* Role selection and local media.

\* startAsHost / startAsGuest up to the await inside startLocalMedia.
\* With a cached stream startLocalMedia sets "media-ready" and returns; the
\* caller's continuation is then the next microtask.
StartAs(p, r) ==
    /\ Settled
    /\ FreeTasks(p) # {}
    /\ localStreamRef[p] # 0 \/ Cardinality(UnusedStreams) > Cardinality(PendingMedia)
    /\ role' = [role EXCEPT ![p] = r]
    /\ LET op == IF r = "host" THEN "startAsHost" ELSE "startAsGuest"
       IN  /\ IF localStreamRef[p] # 0
              THEN /\ phase' = [phase EXCEPT ![p] = "media-ready"]
                   /\ tasks' = [tasks EXCEPT ![p][FreeTask(p)] =
                                    [NoTask EXCEPT !.op = op, !.at = "afterMedia"]]
                   /\ UNCHANGED isBusy
              ELSE /\ isBusy' = [isBusy EXCEPT ![p] = TRUE]
                   /\ tasks' = [tasks EXCEPT ![p][FreeTask(p)] =
                                    [NoTask EXCEPT !.op = op, !.at = "getUserMedia"]]
                   /\ UNCHANGED phase
           /\ last' = Step(op, p, "pending", FALSE)
    /\ UNCHANGED <<offerPayload, answerPayload, refVars, pcs, streams>>
    /\ UNCHANGED recVars

startAsHost(p) == StartAs(p, "host")

startAsGuest(p) == StartAs(p, "guest")

\* startLocalMedia after getUserMedia resolved: try body and finally.
MediaGranted(p, t) ==
    /\ Settled
    /\ tasks[p][t].at = "getUserMedia"
    /\ UnusedStreams # {}
    /\ streams' = [streams EXCEPT ![FreshStream] = "live"]
    /\ localStreamRef' = [localStreamRef EXCEPT ![p] = FreshStream]
    /\ phase' = [phase EXCEPT ![p] = "media-ready"]
    /\ isBusy' = [isBusy EXCEPT ![p] = FALSE]
    /\ tasks' = [tasks EXCEPT ![p][t].at = "afterMedia"]
    /\ last' = Step(tasks[p][t].op, p, "pending", tasks[p][t].hung)
    /\ UNCHANGED <<role, offerPayload, answerPayload, pcRef, dataChannelRef, pcs>>
    /\ UNCHANGED recVars

\* startLocalMedia after getUserMedia rejected: catch and finally.
MediaDenied(p, t) ==
    /\ Settled
    /\ tasks[p][t].at = "getUserMedia"
    /\ isBusy' = [isBusy EXCEPT ![p] = FALSE]
    /\ tasks' = [tasks EXCEPT ![p][t].at = "afterMedia"]
    /\ last' = [Failed(tasks[p][t].op, p, "MediaAccessDenied", tasks[p][t].hung)
                    EXCEPT !.out = "pending"]
    /\ UNCHANGED <<role, phase, offerPayload, answerPayload, refVars, pcs, streams>>
    /\ UNCHANGED recVars

\* startAsHost / startAsGuest after `await startLocalMedia()`.
AfterMedia(p, t) ==
    /\ tasks[p][t].at = "afterMedia"
    /\ phase' = [phase EXCEPT ![p] = "waiting-offer"]
    /\ tasks' = [tasks EXCEPT ![p][t] = NoTask]
    /\ last' = Step(tasks[p][t].op, p, "ok", tasks[p][t].hung)
    /\ UNCHANGED <<role, isBusy, offerPayload, answerPayload, refVars, pcs, streams>>
    /\ UNCHANGED recVars

----------------------------------------------------------------------------
\* Teardown.

\* a teardown that leaves the local stream alone
cleanupKeepingStream(p) ==
    /\ LET k == pcRef[p]
           senders == IF k # 0 THEN pcs[k].senders ELSE {}
       IN  /\ streams' = [s \in StreamIds |->
                             IF s \in senders THEN "stopped" ELSE streams[s]]
           /\ pcs' = IF k # 0
                     THEN [pcs EXCEPT ![k] = [@ EXCEPT !.closed = TRUE]]
                     ELSE pcs
    /\ pcRef' = [pcRef EXCEPT ![p] = 0]
    /\ dataChannelRef' = [dataChannelRef EXCEPT ![p] = 0]
    /\ recognitionRef' = [recognitionRef EXCEPT ![p] = 0]
    /\ UNCHANGED localStreamRef

\* a reset that leaves the phase alone
resetKeepingPhase(p) ==
    /\ role' = [role EXCEPT ![p] = "none"]
    /\ isBusy' = [isBusy EXCEPT ![p] = FALSE]
    /\ offerPayload' = [offerPayload EXCEPT ![p] = EmptyText]
    /\ answerPayload' = [answerPayload EXCEPT ![p] = EmptyText]
    /\ UNCHANGED phase

\* stopRecognition: handlers detached, recognizer stopped; the reference
\* afterwards
stopRecognition(ref) == 0

\* cleanupPeerConnection: stop the tracks of the senders, close the pc, stop
\* the local tracks, clear the refs, stopRecognition().
cleanupPeerConnection(p) ==
    /\ LET k == pcRef[p]
           senders == IF k # 0 THEN pcs[k].senders ELSE {}
           local == IF localStreamRef[p] # 0 THEN {localStreamRef[p]} ELSE {}
       IN  /\ streams' = StopTracks(senders \cup local)
           /\ pcs' = IF k # 0 THEN [pcs EXCEPT ![k] = ClosePc(pcs[k])] ELSE pcs
    /\ pcRef' = [pcRef EXCEPT ![p] = 0]
    /\ localStreamRef' = [localStreamRef EXCEPT ![p] = 0]
    /\ dataChannelRef' = [dataChannelRef EXCEPT ![p] = 0]
    /\ recognitionRef' = [recognitionRef EXCEPT ![p] = stopRecognition(@)]

\* resetState
resetState(p) ==
    /\ phase' = [phase EXCEPT ![p] = "idle"]
    /\ role' = [role EXCEPT ![p] = "none"]
    /\ isBusy' = [isBusy EXCEPT ![p] = FALSE]
    /\ offerPayload' = [offerPayload EXCEPT ![p] = EmptyText]
    /\ answerPayload' = [answerPayload EXCEPT ![p] = EmptyText]

\* hangUp: cleanupPeerConnection(); resetState().  Suspended calls are not
\* cancelled: they keep their own pc handle and are marked as outliving the
\* session (hung).
hangUp(p) ==
    /\ Settled
    /\ cleanupPeerConnection(p)
    /\ resetState(p)
    /\ tasks' = [tasks EXCEPT ![p] =
                    [t \in TaskIds |->
                        IF tasks[p][t].op = "none" THEN NoTask
                        ELSE [tasks[p][t] EXCEPT !.hung = TRUE]]]
    /\ last' = [Step("hangUp", p, "ok", FALSE) EXCEPT !.setError = "null"]
    /\ UNCHANGED <<effectPhase, recTimer>>

----------------------------------------------------------------------------
\* Signaling calls, up to their first await.

\* a role guard that lets every role through
roleGuardAbsent(r, op) == FALSE

\* The role guard that opens createOffer, applyRemoteOfferAndCreateAnswer
\* and applyRemoteAnswer: TRUE when the call is refused.
roleMismatch(r, op) ==
    r # (IF op = "applyOffer" THEN "guest" ELSE "host")

\* A call that returns before any await: the error it reports.
FailCall(op, p, msg) ==
    last' = Failed(op, p, msg, FALSE)

\* `await pc.<operation>(...)`: the task waits in the operations chain of k.
Suspend(P, p, k, op, at, d) ==
    LET t == FreeTask(p)
    IN  /\ FreeTasks(p) # {}
        /\ tasks' = [tasks EXCEPT ![p][t] =
                        [op |-> op, at |-> at, pc |-> k, desc |-> d, hung |-> FALSE]]
        /\ pcs' = [P EXCEPT ![k].chain = Append(P[k].chain, <<p, t>>)]

\* createOffer: role guard, offerPayload guard, ensurePeerConnection,
\* localDescription guard, data channel, tracks, `await pc.createOffer()`.
createOffer(p) ==
    /\ Settled
    /\ IF roleMismatch(role[p], "createOffer")
       THEN /\ FailCall("createOffer", p, "RoleMismatch")
            /\ UNCHANGED <<role, phase, isBusy, offerPayload, answerPayload,
                           refVars, pcs, streams, tasks>>
       ELSE IF offerPayload[p] # EmptyText
       THEN /\ FailCall("createOffer", p, "AlreadyOffered")
            /\ UNCHANGED <<role, phase, isBusy, offerPayload, answerPayload,
                           refVars, pcs, streams, tasks>>
       ELSE /\ CanEnsure(p)
            /\ LET k == ensurePeerConnection(p)
                   P == PcsEnsured(p)
               IN  /\ pcRef' = [pcRef EXCEPT ![p] = k]
                   /\ IF P[k].localDescription # NoDesc
                      THEN /\ FailCall("createOffer", p, "AlreadyOffered")
                           /\ isBusy' = [isBusy EXCEPT ![p] = FALSE]
                           /\ pcs' = P
                           /\ UNCHANGED <<dataChannelRef, tasks>>
                      ELSE /\ dataChannelRef' =
                                  [dataChannelRef EXCEPT
                                      ![p] = IF @ = 0 THEN k ELSE @]
                           /\ Suspend([P EXCEPT ![k].senders =
                                          IF localStreamRef[p] # 0
                                          THEN @ \cup {localStreamRef[p]}
                                          ELSE @],
                                      p, k, "createOffer", "createOffer", NoDesc)
                           /\ isBusy' = [isBusy EXCEPT ![p] = TRUE]
                           /\ last' = Step("createOffer", p, "pending", FALSE)
            /\ UNCHANGED <<role, phase, offerPayload, answerPayload,
                           localStreamRef, streams>>
    /\ UNCHANGED recVars

\* guards that lack the remoteDescription check / the localDescription check
offerGuardNoRemoteCheck(pc, offer) ==
    IF offer \in {[type |-> "parse-error", id |-> 0], [type |-> "empty-object", id |-> 0]}
    THEN "InvalidPayload"
    ELSE "pass"

answerGuardNoLocalCheck(pc, answer) ==
    IF pc.remoteDescription # NoDesc THEN "AlreadyApplied"
    ELSE IF answer \in {[type |-> "parse-error", id |-> 0], [type |-> "empty-object", id |-> 0]}
    THEN "InvalidPayload"
    ELSE IF pc.signalingState # "have-local-offer" THEN "WrongNegotiationState"
    ELSE "pass"

\* applyRemoteOfferAndCreateAnswer after ensurePeerConnection: the
\* remoteDescription guard, the parsing block, and new RTCSessionDescription
\* (which throws into the outer catch for an object without a type).
\* The error reported, or "pass".
applyOfferGuard(pc, offer) ==
    IF pc.remoteDescription # NoDesc THEN "AlreadyApplied"
    ELSE IF offer = ParseError THEN "InvalidPayload"
    ELSE IF offer = EmptyObject THEN "InvalidPayload"
    ELSE "pass"

\* applyRemoteOfferAndCreateAnswer: role guard, ensurePeerConnection, the
\* guards above, `await pc.setRemoteDescription(...)`.
applyRemoteOfferAndCreateAnswer(p, remoteOffer) ==
    /\ Settled
    /\ IF roleMismatch(role[p], "applyOffer")
       THEN /\ FailCall("applyOffer", p, "RoleMismatch")
            /\ UNCHANGED <<role, phase, isBusy, offerPayload, answerPayload,
                           refVars, pcs, streams, tasks>>
       ELSE /\ CanEnsure(p)
            /\ LET k == ensurePeerConnection(p)
                   P == PcsEnsured(p)
                   offer == DecodePayload(remoteOffer)
                   g == applyOfferGuard(P[k], offer)
               IN  /\ pcRef' = [pcRef EXCEPT ![p] = k]
                   /\ IF g # "pass"
                      THEN /\ FailCall("applyOffer", p, g)
                           /\ isBusy' = [isBusy EXCEPT ![p] = FALSE]
                           /\ pcs' = P
                           /\ UNCHANGED tasks
                      ELSE /\ Suspend(P, p, k, "applyOffer", "setRemote", offer)
                           /\ isBusy' = [isBusy EXCEPT ![p] = TRUE]
                           /\ last' = Step("applyOffer", p, "pending", FALSE)
            /\ UNCHANGED <<role, phase, offerPayload, answerPayload,
                           localStreamRef, dataChannelRef, streams>>
    /\ UNCHANGED recVars

\* applyRemoteAnswer after ensurePeerConnection: remoteDescription guard,
\* localDescription guard, parsing block, signalingState guard, and
\* new RTCSessionDescription.  The error reported, or "pass".
applyAnswerGuard(pc, answer) ==
    IF pc.remoteDescription # NoDesc THEN "AlreadyApplied"
    ELSE IF pc.localDescription = NoDesc THEN "NoOfferYet"
    ELSE IF answer = ParseError THEN "InvalidPayload"
    ELSE IF pc.signalingState # "have-local-offer" THEN "WrongNegotiationState"
    ELSE IF answer = EmptyObject THEN "InvalidPayload"
    ELSE "pass"

\* The phase after the remoteDescription guard of applyRemoteAnswer failed:
\* "If already connected, just update phase".
alreadyAppliedPhase(ph, pc) ==
    IF IsIceUp(pc.iceConnectionState) THEN "connected" ELSE ph

\* applyRemoteAnswer: role guard, ensurePeerConnection, the guards above,
\* `await pc.setRemoteDescription(...)`.
applyRemoteAnswer(p, remoteAnswer) ==
    /\ Settled
    /\ IF roleMismatch(role[p], "applyAnswer")
       THEN /\ FailCall("applyAnswer", p, "RoleMismatch")
            /\ UNCHANGED <<role, phase, isBusy, offerPayload, answerPayload,
                           refVars, pcs, streams, tasks>>
       ELSE /\ CanEnsure(p)
            /\ LET k == ensurePeerConnection(p)
                   P == PcsEnsured(p)
                   answer == DecodePayload(remoteAnswer)
                   g == applyAnswerGuard(P[k], answer)
               IN  /\ pcRef' = [pcRef EXCEPT ![p] = k]
                   /\ IF g # "pass"
                      THEN /\ FailCall("applyAnswer", p, g)
                           /\ isBusy' = [isBusy EXCEPT ![p] = FALSE]
                           /\ pcs' = P
                           /\ phase' = IF g = "AlreadyApplied"
                                       THEN [phase EXCEPT ![p] =
                                                alreadyAppliedPhase(@, P[k])]
                                       ELSE phase
                           /\ UNCHANGED tasks
                      ELSE /\ Suspend(P, p, k, "applyAnswer", "setRemote", answer)
                           /\ isBusy' = [isBusy EXCEPT ![p] = TRUE]
                           /\ last' = Step("applyAnswer", p, "pending", FALSE)
                           /\ UNCHANGED phase
            /\ UNCHANGED <<role, offerPayload, answerPayload,
                           localStreamRef, dataChannelRef, streams>>
    /\ UNCHANGED recVars

----------------------------------------------------------------------------
\* The RTCPeerConnection (environment): signaling state machine.

Outcome(ok, st, loc, rem) == [ok |-> ok, st |-> st, loc |-> loc, rem |-> rem]

Rejected(pc) ==
    Outcome(FALSE, pc.signalingState, pc.localDescription, pc.remoteDescription)

\* pc.setLocalDescription(d)
SetLocalOutcomes(pc, d) ==
    IF d.type = "offer" /\ pc.signalingState \in {"stable", "have-local-offer"}
    THEN {Outcome(TRUE, "have-local-offer", d, pc.remoteDescription)}
    ELSE IF d.type = "answer" /\ pc.signalingState = "have-remote-offer"
    THEN {Outcome(TRUE, "stable", d, pc.remoteDescription)}
    ELSE {Rejected(pc)}

\* pc.setRemoteDescription(d).  An offer applied over a local offer is
\* rejected by some engines and rolls the local offer back in others.
SetRemoteOutcomes(pc, d) ==
    IF d.type = "offer" /\ pc.signalingState \in {"stable", "have-remote-offer"}
    THEN {Outcome(TRUE, "have-remote-offer", pc.localDescription, d)}
    ELSE IF d.type = "offer" /\ pc.signalingState = "have-local-offer"
    THEN {Rejected(pc), Outcome(TRUE, "have-remote-offer", NoDesc, d)}
    ELSE IF d.type = "answer" /\ pc.signalingState = "have-local-offer"
    THEN {Outcome(TRUE, "stable", pc.localDescription, d)}
    ELSE {Rejected(pc)}

ApplyOutcome(pc, o) ==
    [pc EXCEPT !.signalingState = o.st,
               !.localDescription = o.loc,
               !.remoteDescription = o.rem]

\* candidate gathering starts with the first local description
StartGathering(pc) ==
    [pc EXCEPT !.iceGatheringState = IF @ = "new" THEN "gathering" ELSE @]

\* The message shown when an awaited operation of the call rejects.  Whether
\* the exception text contains "InvalidStateError" / "wrong state" depends on
\* the engine.
RejectMessages(op) ==
    IF op = "createOffer" THEN {"OfferFailed"} ELSE {"StateError", "InvalidPayload"}

\* catch and finally of a signaling call whose awaited operation rejected
Caught(p, t, msg) ==
    /\ isBusy' = [isBusy EXCEPT ![p] = FALSE]
    /\ tasks' = [tasks EXCEPT ![p][t] = NoTask]
    /\ last' = Failed(tasks[p][t].op, p, msg, tasks[p][t].hung)
    /\ UNCHANGED <<role, phase, offerPayload, answerPayload>>

\* an answerer that always waits for the other end
answerPhaseWaiting(pc) == "waiting-answer"

\* setPhase("waiting-answer") and the check that follows it: "Check if
\* connection is already established (can happen quickly)"
answerPhase(pc) ==
    IF IsIceUp(pc.iceConnectionState) THEN "connected" ELSE "waiting-answer"

\* createOffer / applyRemoteOfferAndCreateAnswer after
\* `await waitForIceGatheringComplete(pc)`: publish the payload; finally.
Publish(p, t, P) ==
    LET tk == tasks[p][t]
        withIce == P[tk.pc].localDescription
    IN  /\ IF tk.op = "createOffer"
           THEN /\ offerPayload' = IF withIce # NoDesc
                                   THEN [offerPayload EXCEPT ![p] = Stringify(withIce)]
                                   ELSE offerPayload
                /\ UNCHANGED <<answerPayload, phase>>
           ELSE /\ answerPayload' = IF withIce # NoDesc
                                    THEN [answerPayload EXCEPT ![p] = Stringify(withIce)]
                                    ELSE answerPayload
                /\ phase' = [phase EXCEPT ![p] = answerPhase(P[tk.pc])]
                /\ UNCHANGED offerPayload
        /\ isBusy' = [isBusy EXCEPT ![p] = FALSE]
        /\ tasks' = [tasks EXCEPT ![p][t] = NoTask]
        /\ last' = Step(tk.op, p, "ok", tk.hung)
        /\ UNCHANGED role

\* The head of the operations chain of an open pc settles and the awaiting
\* call runs to its next await.
ChainResume(k) ==
    /\ Settled
    /\ pcs[k].made /\ ~pcs[k].closed
    /\ pcs[k].chain # << >>
    /\ LET p == Head(pcs[k].chain)[1]
           t == Head(pcs[k].chain)[2]
           tk == tasks[p][t]
           pc == [pcs[k] EXCEPT !.chain = Tail(@)]
           requeue(q) == [q EXCEPT !.chain = Append(@, <<p, t>>)]
       IN  /\ CASE tk.at = "createOffer" ->
                    \* const offer = await pc.createOffer();
                    \* await pc.setLocalDescription(offer)
                    /\ pcs' = [pcs EXCEPT ![k] = requeue(pc)]
                    /\ tasks' = [tasks EXCEPT ![p][t].at = "setLocal",
                                              ![p][t].desc = OfferDesc(t)]
                    /\ last' = Step(tk.op, p, "pending", tk.hung)
                    /\ UNCHANGED hookVars
                [] tk.at = "createAnswer" ->
                    \* const answer = await pc.createAnswer();
                    \* await pc.setLocalDescription(answer)
                    IF pc.signalingState = "have-remote-offer"
                    THEN /\ pcs' = [pcs EXCEPT ![k] = requeue(pc)]
                         /\ tasks' = [tasks EXCEPT ![p][t].at = "setLocal",
                                                   ![p][t].desc = AnswerDesc(t)]
                         /\ last' = Step(tk.op, p, "pending", tk.hung)
                         /\ UNCHANGED hookVars
                    ELSE /\ pcs' = [pcs EXCEPT ![k] = pc]
                         /\ \E msg \in RejectMessages(tk.op) : Caught(p, t, msg)
                [] tk.at = "setLocal" ->
                    \* await pc.setLocalDescription(...);
                    \* await waitForIceGatheringComplete(pc)
                    \E o \in SetLocalOutcomes(pc, tk.desc) :
                        IF ~o.ok
                        THEN /\ pcs' = [pcs EXCEPT ![k] = pc]
                             /\ \E msg \in RejectMessages(tk.op) : Caught(p, t, msg)
                        ELSE LET q == StartGathering(ApplyOutcome(pc, o))
                             IN  /\ pcs' = [pcs EXCEPT ![k] = q]
                                 /\ IF q.iceGatheringState = "complete"
                                    THEN Publish(p, t, [pcs EXCEPT ![k] = q])
                                    ELSE /\ tasks' = [tasks EXCEPT ![p][t].at = "gather"]
                                         /\ last' = Step(tk.op, p, "pending", tk.hung)
                                         /\ UNCHANGED hookVars
                [] tk.at = "setRemote" ->
                    \* await pc.setRemoteDescription(...)
                    \E o \in SetRemoteOutcomes(pc, tk.desc) :
                        IF ~o.ok
                        THEN /\ pcs' = [pcs EXCEPT ![k] = pc]
                             /\ \E msg \in RejectMessages(tk.op) : Caught(p, t, msg)
                        ELSE IF tk.op = "applyOffer"
                        THEN \* const answer = await pc.createAnswer()
                             /\ pcs' = [pcs EXCEPT ![k] = requeue(ApplyOutcome(pc, o))]
                             /\ tasks' = [tasks EXCEPT ![p][t].at = "createAnswer"]
                             /\ last' = Step(tk.op, p, "pending", tk.hung)
                             /\ UNCHANGED hookVars
                        ELSE \* applyRemoteAnswer: setPhase("connected"); finally
                             /\ pcs' = [pcs EXCEPT ![k] = ApplyOutcome(pc, o)]
                             /\ phase' = [phase EXCEPT ![p] = "connected"]
                             /\ isBusy' = [isBusy EXCEPT ![p] = FALSE]
                             /\ tasks' = [tasks EXCEPT ![p][t] = NoTask]
                             /\ last' = Step(tk.op, p, "ok", tk.hung)
                             /\ UNCHANGED <<role, offerPayload, answerPayload>>
    /\ UNCHANGED <<refVars, streams>>
    /\ UNCHANGED recVars

\* An operation that was in the chain when the pc was closed: the engine
\* may reject it (the call's catch and finally run) or never settle it.
ChainReject(k) ==
    /\ Settled
    /\ pcs[k].made /\ pcs[k].closed
    /\ pcs[k].chain # << >>
    /\ LET p == Head(pcs[k].chain)[1]
           t == Head(pcs[k].chain)[2]
       IN  /\ pcs' = [pcs EXCEPT ![k].chain = Tail(@)]
           /\ \E msg \in RejectMessages(tasks[p][t].op) : Caught(p, t, msg)
    /\ UNCHANGED <<refVars, streams>>
    /\ UNCHANGED recVars

\* a gathering wait that is also resolved when its pc was closed
GatheringCompleteOrClosed(k) ==
    /\ Settled
    /\ pcs[k].made
    /\ pcs[k].closed \/ pcs[k].iceGatheringState = "gathering"
    /\ pcs' = [pcs EXCEPT ![k].iceGatheringState = "complete"]
    /\ tasks' = [p \in Peers |-> [t \in TaskIds |->
                    IF tasks[p][t].at = "gather" /\ tasks[p][t].pc = k
                    THEN [tasks[p][t] EXCEPT !.at = "gathered"]
                    ELSE tasks[p][t]]]
    /\ last' = Step("gatheringComplete", pcs[k].owner, "ok", FALSE)
    /\ UNCHANGED <<hookVars, refVars, streams>>
    /\ UNCHANGED recVars

\* icegatheringstatechange to "complete": every waiting call is resolved;
\* their continuations are the next microtasks.
GatheringComplete(k) ==
    /\ Settled
    /\ pcs[k].made /\ ~pcs[k].closed
    /\ pcs[k].iceGatheringState = "gathering"
    /\ pcs' = [pcs EXCEPT ![k].iceGatheringState = "complete"]
    /\ tasks' = [p \in Peers |-> [t \in TaskIds |->
                    IF tasks[p][t].at = "gather" /\ tasks[p][t].pc = k
                    THEN [tasks[p][t] EXCEPT !.at = "gathered"]
                    ELSE tasks[p][t]]]
    /\ last' = Step("gatheringComplete", pcs[k].owner, "ok", FALSE)
    /\ UNCHANGED <<hookVars, refVars, streams>>
    /\ UNCHANGED recVars

\* continuation of a call whose gathering wait was resolved
Gathered(p, t) ==
    /\ tasks[p][t].at = "gathered"
    /\ Publish(p, t, pcs)
    /\ UNCHANGED <<refVars, pcs, streams>>
    /\ UNCHANGED recVars

----------------------------------------------------------------------------
\* Transport connection state (environment) and its handler.

\* the iceConnectionState transitions of an open pc
NextIce(s) ==
    CASE s = "new" -> {"checking"}
      [] s = "checking" -> {"connected", "failed"}
      [] s = "connected" -> {"completed", "disconnected"}
      [] s = "completed" -> {"disconnected"}
      [] s = "disconnected" -> {"connected", "failed"}
      [] OTHER -> {}

\* The transport queues the task that will change the state and fire
\* iceconnectionstatechange.
IceChange(k, s) ==
    /\ Settled
    /\ pcs[k].made /\ ~pcs[k].closed
    /\ pcs[k].localDescription # NoDesc /\ pcs[k].remoteDescription # NoDesc
    /\ pcs[k].icePending = "none"
    /\ s \in NextIce(pcs[k].iceConnectionState)
    /\ pcs' = [pcs EXCEPT ![k].icePending = s]
    /\ last' = Step("iceChange", pcs[k].owner, "ok", FALSE)
    /\ UNCHANGED <<hookVars, refVars, streams, tasks>>
    /\ UNCHANGED recVars

\* a handler that reacts to connected / completed only
handlerConnectedOnly(ph, state) ==
    IF state \in {"connected", "completed"} THEN "connected" ELSE ph

\* pc.oniceconnectionstatechange: the phase the handler sets for a state
oniceconnectionstatechange(ph, state) ==
    IF IsIceUp(state) THEN "connected"
    ELSE IF IsIceDown(state) THEN "ended"
    ELSE ph

\* The queued task runs: the state changes (a closed pc stays "closed") and
\* the handler, which is never unregistered, reads pc.iceConnectionState.
IceDeliver(k) ==
    /\ Settled
    /\ pcs[k].made
    /\ pcs[k].icePending # "none"
    /\ LET state == IF pcs[k].closed THEN "closed" ELSE pcs[k].icePending
           p == pcs[k].owner
       IN  /\ pcs' = [pcs EXCEPT ![k].icePending = "none",
                                 ![k].iceConnectionState = state]
           /\ phase' = [phase EXCEPT ![p] = oniceconnectionstatechange(@, state)]
           /\ last' = Step("iceDeliver", p, state, pcs[k].closed)
    /\ UNCHANGED <<role, isBusy, offerPayload, answerPayload,
                   refVars, streams, tasks>>
    /\ UNCHANGED recVars

\* The queued task finds the pc closed and fires no event.
IceDrop(k) ==
    /\ Settled
    /\ pcs[k].made /\ pcs[k].closed
    /\ pcs[k].icePending # "none"
    /\ pcs' = [pcs EXCEPT ![k].icePending = "none"]
    /\ last' = Step("iceDrop", pcs[k].owner, "ok", TRUE)
    /\ UNCHANGED <<hookVars, refVars, streams, tasks>>
    /\ UNCHANGED recVars

----------------------------------------------------------------------------
\* Caption channel announcement and the speech recognizer.

\* a pc.ondatachannel that returns without keeping the channel announced
AnnounceDropped(k) ==
    /\ Settled
    /\ pcs[k].made /\ ~pcs[k].closed
    /\ pcs[k].remoteDescription.type = "offer"
    /\ IsIceUp(pcs[k].iceConnectionState)
    /\ dataChannelRef[pcs[k].owner] = 0
    /\ last' = Step("channelAnnounce", pcs[k].owner, "ok", FALSE)
    /\ UNCHANGED <<hookVars, refVars, recVars, pcs, streams, tasks>>

\* pc.ondatachannel: the channel opened by the other end is announced once
\* the transport is up; it is kept only if no channel is held.
ChannelAnnounce(k) ==
    /\ Settled
    /\ pcs[k].made /\ ~pcs[k].closed
    /\ pcs[k].remoteDescription.type = "offer"
    /\ IsIceUp(pcs[k].iceConnectionState)
    /\ dataChannelRef[pcs[k].owner] = 0
    /\ dataChannelRef' = [dataChannelRef EXCEPT ![pcs[k].owner] = k]
    /\ last' = Step("channelAnnounce", pcs[k].owner, "ok", FALSE)
    /\ UNCHANGED <<hookVars, pcRef, localStreamRef, recVars, pcs, streams, tasks>>

\* the browser has the Web Speech API (the detection effect has run)
captionsSupported == TRUE

\* The effect "Start / stop speech recognition when connected and
\* supported", run for a new phase.  When connected it stops a running
\* recognizer, builds a new one and calls startRecognitionWithDelay, whose
\* timer nothing cancels; otherwise it stops the recognizer.
RecognitionEffect(p) ==
    /\ ~MicroPending
    /\ effectPhase[p] # phase[p]
    /\ effectPhase' = [effectPhase EXCEPT ![p] = phase[p]]
    /\ recognitionRef' = [recognitionRef EXCEPT ![p] = stopRecognition(@)]
    /\ recTimer' = [recTimer EXCEPT ![p] =
                       IF captionsSupported /\ phase[p] = "connected" THEN TRUE ELSE @]
    /\ last' = Step("recognitionEffect", p, "ok", FALSE)
    /\ UNCHANGED <<hookVars, refVars, pcs, streams, tasks>>

\* verifyMicrophone: an audio track of the local stream is live
verifyMicrophone(p) ==
    localStreamRef[p] # 0 /\ streams[localStreamRef[p]] = "live"

\* startRecognitionWithDelay after its timer: `phase` is the value of the
\* render that scheduled it ("connected").  It returns when a recognizer
\* is installed; it starts the recognizer when the microphone is ready;
\* otherwise it schedules itself again (no change of state).
RecognitionTimer(p) ==
    /\ Settled
    /\ recTimer[p]
    /\ recognitionRef[p] # 0 \/ verifyMicrophone(p)
    /\ recognitionRef' = [recognitionRef EXCEPT ![p] = 1]
    /\ recTimer' = [recTimer EXCEPT ![p] = FALSE]
    /\ last' = Step("recognitionTimer", p, "ok", FALSE)
    /\ UNCHANGED <<hookVars, refVars, effectPhase, pcs, streams, tasks>>

----------------------------------------------------------------------------
\* One hook instance with its environment.

Solo == CHOOSE p \in Peers : TRUE

\* a call made by the user of the hook
Call ==
    nCalls < MaxCalls /\ nCalls' = nCalls + 1 /\ UNCHANGED <<relayVars, speechVars>>
\* a promise settling, an event or a continuation
Event == nCalls' = nCalls /\ UNCHANGED <<relayVars, speechVars>>

IceStates == {"checking", "connected", "completed", "disconnected", "failed"}

Next ==
    \/ Call /\ startAsHost(Solo)
    \/ Call /\ startAsGuest(Solo)
    \/ Call /\ createOffer(Solo)
    \/ Call /\ \E text \in PayloadInputs : applyRemoteOfferAndCreateAnswer(Solo, text)
    \/ Call /\ \E text \in PayloadInputs : applyRemoteAnswer(Solo, text)
    \/ Call /\ hangUp(Solo)
    \/ Event /\ \E t \in TaskIds : MediaGranted(Solo, t)
    \/ Event /\ \E t \in TaskIds : MediaDenied(Solo, t)
    \/ Event /\ \E t \in TaskIds : AfterMedia(Solo, t)
    \/ Event /\ \E k \in PcIds : ChainResume(k)
    \/ Event /\ \E k \in PcIds : ChainReject(k)
    \/ Event /\ \E k \in PcIds : GatheringComplete(k)
    \/ Event /\ \E t \in TaskIds : Gathered(Solo, t)
    \/ Event /\ \E k \in PcIds, s \in IceStates : IceChange(k, s)
    \/ Event /\ \E k \in PcIds : IceDeliver(k)
    \/ Event /\ \E k \in PcIds : IceDrop(k)
    \/ Event /\ \E k \in PcIds : ChannelAnnounce(k)
    \/ Event /\ RecognitionEffect(Solo)
    \/ Event /\ RecognitionTimer(Solo)

Spec == Init /\ [][Next]_vars

----------------------------------------------------------------------------
\* Properties.  A step is identified by the record it leaves in `last`.

\* the peer connection a call of p works on: the one held, or a fresh one
PcOf(p) == IF pcRef[p] # 0 THEN pcs[pcRef[p]] ELSE NewPc

\* the step is the part of a call that runs before its first await
CallStep(op, p) == last'.op = op /\ last'.peer = p /\ nCalls' = nCalls + 1

\* the step ends a call of the current session as failed / as succeeded
FailStep(op, p) ==
    last'.op = op /\ last'.peer = p /\ last'.out = "fail" /\ ~last'.hung

OkStep(op, p) ==
    last'.op = op /\ last'.peer = p /\ last'.out = "ok" /\ ~last'.hung

\* C1 (as stated): within one session at most one createOffer call succeeds
\* in producing an offer, also when calls overlap; every other call fails
\* with AlreadyOffered and leaves the offer payload, the local description
\* and the phase unchanged.
C1_OfferAtMostOnce ==
    [][\A p \in Peers :
          /\ OkStep("createOffer", p) => offerPayload[p] = EmptyText
          /\ (CallStep("createOffer", p) /\ last'.out = "fail" /\ role[p] = "host") =>
                /\ last'.setError = "AlreadyOffered"
                /\ offerPayload'[p] = offerPayload[p]
                /\ phase'[p] = phase[p]
                /\ pcs'[pcRef'[p]].localDescription = PcOf(p).localDescription
      ]_vars

\* the conditions under which applyRemoteAnswer accepts a call, the error of
\* each refused call and of each call whose awaited operation rejects
C2_Guards(p) ==
    /\ (CallStep("applyAnswer", p) /\ last'.out = "pending") =>
          /\ role[p] = "host"
          /\ PcOf(p).localDescription # NoDesc
          /\ PcOf(p).remoteDescription = NoDesc
          /\ PcOf(p).signalingState = "have-local-offer"
    /\ (CallStep("applyAnswer", p) /\ last'.out = "fail") =>
          CASE last'.setError = "RoleMismatch" -> role[p] # "host"
            [] last'.setError = "AlreadyApplied" ->
                  role[p] = "host" /\ PcOf(p).remoteDescription # NoDesc
            [] last'.setError = "NoOfferYet" ->
                  /\ role[p] = "host"
                  /\ PcOf(p).remoteDescription = NoDesc
                  /\ PcOf(p).localDescription = NoDesc
            [] last'.setError = "WrongNegotiationState" ->
                  /\ role[p] = "host"
                  /\ PcOf(p).remoteDescription = NoDesc
                  /\ PcOf(p).localDescription # NoDesc
                  /\ PcOf(p).signalingState # "have-local-offer"
            [] last'.setError = "InvalidPayload" ->
                  /\ role[p] = "host"
                  /\ PcOf(p).remoteDescription = NoDesc
                  /\ PcOf(p).localDescription # NoDesc
            [] OTHER -> FALSE
    /\ (FailStep("applyAnswer", p) /\ ~CallStep("applyAnswer", p)) =>
          last'.setError \in {"StateError", "InvalidPayload"}

\* C2 (as stated): applyAnswer is accepted only by the Host with a local
\* offer, no remote description and negotiation state have-local-offer;
\* every other call reports the matching error, and a failed call leaves the
\* phase as it was, whatever the transport's connection state.
C2_AnswerErrorsKeepPhase ==
    [][\A p \in Peers :
          /\ C2_Guards(p)
          /\ FailStep("applyAnswer", p) => phase'[p] = phase[p]
      ]_vars

\* C2 (amended): as above, except that a call refused with AlreadyApplied
\* while the transport is connected or completed sets the phase to Connected.
C2_AnswerErrorsPhase ==
    [][\A p \in Peers :
          /\ C2_Guards(p)
          /\ FailStep("applyAnswer", p) =>
                phase'[p] = IF /\ last'.setError = "AlreadyApplied"
                               /\ IsIceUp(PcOf(p).iceConnectionState)
                            THEN "connected"
                            ELSE phase[p]
      ]_vars

\* an AlreadyApplied refusal has just moved the phase to Connected
C2_Witness ==
    /\ last.op = "applyAnswer" /\ last.setError = "AlreadyApplied"
    /\ phase[last.peer] = "connected"
    /\ effectPhase[last.peer] = "waiting-offer"

\* C4 (as stated): hang-up is enabled in every phase, and the phase
\* immediately after hang-up is Ended.
C4_HangUpEnds ==
    /\ [](\A p \in Peers : Settled => ENABLED hangUp(p))
    /\ [][\A p \in Peers :
             last'.op = "hangUp" /\ last'.peer = p => phase'[p] = "ended"]_vars

\* C4 (amended): hang-up is enabled in every phase, and the phase
\* immediately after hang-up is Idle.
C4_HangUpResets ==
    /\ [](\A p \in Peers : Settled => ENABLED hangUp(p))
    /\ [][\A p \in Peers :
             last'.op = "hangUp" /\ last'.peer = p => phase'[p] = "idle"]_vars

\* hang-up has just been made in phase Connected
C4_Witness ==
    /\ last.op = "hangUp"
    /\ phase[last.peer] = "idle"
    /\ effectPhase[last.peer] = "connected"

\* C5 (as stated): a transport state-change callback of a torn-down session
\* that is delivered after hang-up changes neither phase, role, error nor
\* payloads.
C5_LateCallbackInert ==
    [][\A p \in Peers :
          last'.op = "iceDeliver" /\ last'.peer = p /\ last'.hung =>
             /\ phase'[p] = phase[p]
             /\ role'[p] = role[p]
             /\ last'.setError = "none"
             /\ offerPayload'[p] = offerPayload[p]
             /\ answerPayload'[p] = answerPayload[p]
      ]_vars

AsyncOps == {"startAsHost", "startAsGuest", "createOffer", "applyOffer", "applyAnswer"}

\* C6 (as stated): the continuation of an operation that was suspended at
\* an await when hang-up happened is a no-op: phase, role, error and
\* payloads are unchanged, no local media stream is stored and no peer
\* session is left behind.
C6_LateContinuationInert ==
    [][\A p \in Peers :
          last'.op \in AsyncOps /\ last'.peer = p /\ last'.hung =>
             /\ phase'[p] = phase[p]
             /\ role'[p] = role[p]
             /\ last'.setError = "none"
             /\ offerPayload'[p] = offerPayload[p]
             /\ answerPayload'[p] = answerPayload[p]
             /\ localStreamRef'[p] = localStreamRef[p]
             /\ pcRef'[p] = pcRef[p]
      ]_vars

\* nothing of a session is held by p
TornDown(p) ==
    /\ pcRef[p] = 0
    /\ localStreamRef[p] = 0
    /\ dataChannelRef[p] = 0
    /\ recognitionRef[p] = 0
    /\ phase[p] = "idle" /\ role[p] = "none" /\ ~isBusy[p]
    /\ offerPayload[p] = EmptyText /\ answerPayload[p] = EmptyText

\* C7: after hang-up no peer connection, local media stream, caption channel
\* or recognizer is held: the references are cleared, the peer connection
\* (and with it the caption channel) that was held is closed, the tracks of
\* the stream that was held and of the senders are stopped; a hang-up on a
\* torn-down session leaves the whole state as it is.
\* (What is released is what the hook holds when hang-up is made: a stream
\* whose reference was overwritten by an overlapping acquisition is out of
\* the reach of cleanupPeerConnection and is not spoken of here.)
C7_HangUpReleases ==
    [][\A p \in Peers :
          last'.op = "hangUp" /\ last'.peer = p =>
             /\ pcRef'[p] = 0
             /\ localStreamRef'[p] = 0
             /\ dataChannelRef'[p] = 0
             /\ recognitionRef'[p] = 0
             /\ pcRef[p] # 0 =>
                   /\ pcs'[pcRef[p]].closed
                   /\ \A s \in pcs[pcRef[p]].senders : streams'[s] = "stopped"
             /\ dataChannelRef[p] # 0 => pcs'[dataChannelRef[p]].closed
             /\ localStreamRef[p] # 0 => streams'[localStreamRef[p]] = "stopped"
             /\ \A k \in PcIds : pcs[k].made /\ pcs[k].owner = p => pcs'[k].closed
             /\ TornDown(p) =>
                   UNCHANGED <<hookVars, refVars, recVars, pcs, streams, tasks>>
      ]_vars

\* hang-up has just been made in phase Connected with a running recognizer
C7_Witness ==
    /\ last.op = "hangUp"
    /\ TornDown(last.peer)
    /\ effectPhase[last.peer] = "connected" /\ ~recTimer[last.peer]
    /\ \E k \in PcIds : pcs[k].closed
    /\ \E s \in StreamIds : streams[s] = "stopped"

\* C8: processing a transport notification of disconnected, failed or
\* closed sets the phase to Ended, whatever the phase was.
C8_TransportDownEnds ==
    [][\A p \in Peers :
          last'.op = "iceDeliver" /\ last'.peer = p /\ IsIceDown(last'.out) =>
             phase'[p] = "ended"
      ]_vars

\* a "failed" notification has just been processed in phase Connected
C8_Witness ==
    /\ last.op = "iceDeliver" /\ last.out = "failed"
    /\ phase[last.peer] = "ended"
    /\ effectPhase[last.peer] = "connected"

\* C9 (as stated): once the phase is Ended, no step of the session other
\* than hang-up changes it.
C9_EndedTerminal ==
    [][\A p \in Peers :
          (phase[p] = "ended" /\ ~last'.hung /\ ~(last'.op = "hangUp" /\ last'.peer = p))
             => phase'[p] = "ended"
      ]_vars

\* p is the Guest and a remote description is applied in its session
C10_Applied(p) == role[p] = "guest" /\ PcOf(p).remoteDescription # NoDesc

\* the part of C10 that does not depend on how an overlapping call fails:
\* a call succeeds only while no answer payload exists, an answer payload
\* is changed by hang-up only, and a call made after a remote description
\* was applied is refused with AlreadyApplied
C10_Once(p) ==
    /\ OkStep("applyOffer", p) => answerPayload[p] = EmptyText
    /\ (answerPayload[p] # EmptyText /\ ~(last'.op = "hangUp" /\ last'.peer = p)) =>
          answerPayload'[p] = answerPayload[p]
    /\ (CallStep("applyOffer", p) /\ C10_Applied(p)) =>
          (last'.out = "fail" /\ last'.setError = "AlreadyApplied")

\* C10 (as stated): within one session applyOfferAndAnswer succeeds at most
\* once; once a remote offer is applied every further call, also one that
\* overlaps the suspended first call, fails with AlreadyApplied; the answer
\* payload keeps its first value until hang-up.
C10_AnswerOnceAlreadyApplied ==
    [][\A p \in Peers :
          /\ C10_Once(p)
          /\ (FailStep("applyOffer", p) /\ C10_Applied(p)) =>
                last'.setError = "AlreadyApplied"
      ]_vars

\* C10 (amended): as above, except that a call made while the first call is
\* still suspended before its remote description is applied passes the
\* guard and fails later, when its own operation is rejected, with the
\* error of a rejected operation (StateError or InvalidPayload).
C10_AnswerOnce ==
    [][\A p \in Peers :
          /\ C10_Once(p)
          /\ (FailStep("applyOffer", p) /\ C10_Applied(p)) =>
                IF CallStep("applyOffer", p)
                THEN last'.setError = "AlreadyApplied"
                ELSE last'.setError \in {"StateError", "InvalidPayload"}
      ]_vars

\* an overlapping call has just failed on its rejected operation while the
\* other call of the session has its answer applied
C10_Witness ==
    /\ last.op = "applyOffer" /\ last.out = "fail" /\ ~last.hung
    /\ last.setError \in {"StateError", "InvalidPayload"}
    /\ role[last.peer] = "guest"
    /\ PcOf(last.peer).remoteDescription.type = "offer"
    /\ PcOf(last.peer).localDescription.type = "answer"

----------------------------------------------------------------------------
\* Scenario A: the two ends of one call.  "A" is the Host, "B" the Guest;
\* each call of the scenario is made once, the codes are carried from one
\* end to the other as the texts the hook published, and no transport
\* failure occurs.

Host == "A"
Guest == "B"

NoTasks(p) == \A t \in TaskIds : tasks[p][t] = NoTask

\* both ends have both descriptions: connectivity checks can succeed
Linked ==
    \A k \in PcIds :
        pcs[k].made =>
            /\ ~pcs[k].closed
            /\ pcs[k].localDescription # NoDesc
            /\ pcs[k].remoteDescription # NoDesc

IceChangeA(k, s) ==
    /\ Cardinality({j \in PcIds : pcs[j].made}) = 2
    /\ Linked
    /\ s \in {"checking", "connected", "completed"}
    /\ IceChange(k, s)

NextA ==
    \/ Event /\ role[Host] = "none" /\ startAsHost(Host)
    \/ Event /\ role[Guest] = "none" /\ startAsGuest(Guest)
    \/ Event /\ \E p \in Peers, t \in TaskIds : MediaGranted(p, t)
    \/ Event /\ \E p \in Peers, t \in TaskIds : AfterMedia(p, t)
    \/ Event /\ phase[Host] = "waiting-offer" /\ offerPayload[Host] = EmptyText
             /\ NoTasks(Host) /\ createOffer(Host)
    \/ Event /\ phase[Guest] = "waiting-offer" /\ offerPayload[Host] # EmptyText
             /\ NoTasks(Guest)
             /\ applyRemoteOfferAndCreateAnswer(Guest, offerPayload[Host])
    \/ Event /\ phase[Host] = "waiting-offer" /\ answerPayload[Guest] # EmptyText
             /\ NoTasks(Host)
             /\ applyRemoteAnswer(Host, answerPayload[Guest])
    \/ Event /\ \E k \in PcIds : ChainResume(k)
    \/ Event /\ \E k \in PcIds : GatheringComplete(k)
    \/ Event /\ \E p \in Peers, t \in TaskIds : Gathered(p, t)
    \/ Event /\ \E k \in PcIds, s \in IceStates : IceChangeA(k, s)
    \/ Event /\ \E k \in PcIds : IceDeliver(k)
    \/ Event /\ \E k \in PcIds : ChannelAnnounce(k)
    \/ Event /\ \E p \in Peers : RecognitionEffect(p)
    \/ Event /\ \E p \in Peers : RecognitionTimer(p)

\* Promises settle, queued events are delivered and the users go on with
\* the scenario: a step that can be taken is eventually taken.
SpecA == Init /\ [][NextA]_vars /\ WF_vars(NextA)

HostOrder ==
    {<<"idle", "media-ready">>, <<"media-ready", "waiting-offer">>,
     <<"waiting-offer", "connected">>}

GuestOrder ==
    {<<"idle", "media-ready">>, <<"media-ready", "waiting-offer">>,
     <<"waiting-offer", "waiting-answer">>, <<"waiting-answer", "connected">>}

\* C3: in scenario A the Host's phase runs through Idle, MediaReady,
\* WaitingOffer, Connected and the Guest's through Idle, MediaReady,
\* WaitingOffer, WaitingAnswer, Connected, and both peers eventually reach
\* Connected (and stay there).
C3_ScenarioA ==
    /\ [][/\ phase'[Host] # phase[Host] => <<phase[Host], phase'[Host]>> \in HostOrder
          /\ phase'[Guest] # phase[Guest] => <<phase[Guest], phase'[Guest]>> \in GuestOrder
         ]_vars
    /\ <>[](phase[Host] = "connected" /\ phase[Guest] = "connected")

\* both ends are connected, the Guest by the transport's notification
C3_Witness ==
    /\ phase[Host] = "connected" /\ phase[Guest] = "connected"
    /\ last.op = "iceDeliver" /\ last.peer = Guest /\ last.out = "connected"
    /\ answerPayload[Guest] # EmptyText /\ offerPayload[Host] # EmptyText

----------------------------------------------------------------------------
\* C11 (as stated): the role is assigned at most once per session.  Once
\* startAsHost or startAsGuest has set it, no later startAsHost or
\* startAsGuest call changes it, and it returns to "none" only in hangUp.
C11_RoleAssignedOnce ==
    [][\A p \in Peers :
          /\ (role[p] # "none" /\ last'.op \in {"startAsHost", "startAsGuest"}
                  /\ last'.peer = p)
                => role'[p] = role[p]
          /\ (role[p] # "none" /\ role'[p] = "none")
                => (last'.op = "hangUp" /\ last'.peer = p)
      ]_vars

----------------------------------------------------------------------------
\* the open connections a peer owns
OpenPcs(p) == {k \in PcIds : pcs[k].made /\ ~pcs[k].closed /\ pcs[k].owner = p}

\* C12: between two hang-ups at most one peer connection is constructed,
\* whatever the interleaving of createOffer, applyRemoteOfferAndCreateAnswer
\* and applyRemoteAnswer.  A step constructs a connection for a peer only
\* when pcRef holds none and stores the new one in pcRef; a held connection
\* stays the held one until hangUp; so a peer never owns two open connections.
C12_OnePeerConnection ==
    [][\A p \in Peers :
          /\ \A k \in PcIds :
                (pcs'[k].made /\ ~pcs[k].made /\ pcs'[k].owner = p)
                    => (pcRef[p] = 0 /\ pcRef'[p] = k)
          /\ (pcRef[p] # 0 /\ ~(last'.op = "hangUp" /\ last'.peer = p))
                => pcRef'[p] = pcRef[p]
          /\ OpenPcs(p) \subseteq {pcRef[p]}
      ]_vars

\* applyRemoteAnswer ran on the connection that createOffer constructed, and
\* no second connection exists
C12_Witness ==
    \E p \in Peers :
        /\ last.op = "applyAnswer" /\ last.peer = p /\ ~last.hung
        /\ pcRef[p] # 0
        /\ pcs[pcRef[p]].localDescription # NoDesc
        /\ {k \in PcIds : pcs[k].made} = {pcRef[p]}

----------------------------------------------------------------------------
\* the acquisitions pending among the calls tk
MediaRequests(tk) == {t \in TaskIds : tk[t].at = "getUserMedia"}

\* C13 (as stated): camera and microphone are requested at most once per
\* session.  A startAsHost or startAsGuest call made while the stream is
\* cached, or while an earlier acquisition of the session is still pending,
\* issues no new getUserMedia request.
C13_MediaRequestedOnce ==
    [][\A p \in Peers :
          (/\ CallStep("startAsHost", p) \/ CallStep("startAsGuest", p)
           /\ \/ localStreamRef[p] # 0
              \/ \E t \in MediaRequests(tasks[p]) : ~tasks[p][t].hung)
            => MediaRequests(tasks'[p]) \subseteq MediaRequests(tasks[p])
      ]_vars

----------------------------------------------------------------------------
\* C14 (as stated): the phases "media-ready" and "waiting-offer" are entered
\* only with local media acquired.  A refused acquisition reports the error
\* and leaves the phase as it was, and whenever the phase is "waiting-offer"
\* a local stream is held.
C14_MediaBeforeWaitingOffer ==
    [][\A p \in Peers :
          /\ (phase'[p] \in {"media-ready", "waiting-offer"} /\ phase'[p] # phase[p])
                => localStreamRef'[p] # 0
          /\ phase[p] = "waiting-offer" => localStreamRef[p] # 0
      ]_vars

----------------------------------------------------------------------------
\* C15 (as stated): whenever the phase is "waiting-answer" the role is
\* "guest" and a non-empty answer payload is published, produced from a
\* remote offer that was applied on the held connection.
C15_WaitingAnswerIsGuest ==
    \A p \in Peers :
        phase[p] = "waiting-answer"
            => /\ role[p] = "guest"
               /\ answerPayload[p] # EmptyText
               /\ pcRef[p] # 0
               /\ pcs[pcRef[p]].remoteDescription.type = "offer"

----------------------------------------------------------------------------
\* C16: createOffer or applyRemoteAnswer called while the role is not
\* "host", and applyRemoteOfferAndCreateAnswer called while the role is not
\* "guest", fail with RoleMismatch and leave the phase, both payloads and the
\* peer connections as they were; the failed call constructs no connection.
C16_RoleMismatchInert ==
    [][\A p \in Peers :
          /\ \A op \in {"createOffer", "applyAnswer"} :
                (CallStep(op, p) /\ role[p] # "host")
                    => /\ last' = Failed(op, p, "RoleMismatch", FALSE)
                       /\ phase' = phase /\ pcRef' = pcRef /\ pcs' = pcs
                       /\ offerPayload' = offerPayload
                       /\ answerPayload' = answerPayload
          /\ (CallStep("applyOffer", p) /\ role[p] # "guest")
                => /\ last' = Failed("applyOffer", p, "RoleMismatch", FALSE)
                   /\ phase' = phase /\ pcRef' = pcRef /\ pcs' = pcs
                   /\ offerPayload' = offerPayload
                   /\ answerPayload' = answerPayload
      ]_vars

\* a guest that holds a connection called applyRemoteAnswer and was refused
C16_Witness ==
    \E p \in Peers :
        /\ last = Failed("applyAnswer", p, "RoleMismatch", FALSE)
        /\ role[p] = "guest"
        /\ pcRef[p] # 0
        /\ pcs[pcRef[p]].remoteDescription # NoDesc

----------------------------------------------------------------------------
\* texts that do not parse, and what a call refused for its text leaves
\* as it was
UnparseableInputs == {EmptyText, StringifyUnclosed(OfferDesc(1))}

C17_Inert(op, p) ==
    /\ last' = Failed(op, p, "InvalidPayload", FALSE)
    /\ phase' = phase
    /\ offerPayload' = offerPayload
    /\ answerPayload' = answerPayload
    /\ pcRef'[p] # 0
    /\ pcs'[pcRef'[p]].remoteDescription = NoDesc
    /\ pcs'[pcRef'[p]].signalingState = PcOf(p).signalingState

\* C17: applyRemoteOfferAndCreateAnswer or applyRemoteAnswer, called in a
\* state in which a valid code would be accepted, with a text that does not
\* parse (empty, or with an unbalanced brace) fails with InvalidPayload,
\* applies no remote description and leaves the phase and both payloads as
\* they were; a valid code is still accepted afterwards.
C17_InvalidPayloadInert ==
    [][\A p \in Peers, tx \in UnparseableInputs :
          /\ (/\ applyRemoteOfferAndCreateAnswer(p, tx)
              /\ role[p] = "guest"
              /\ applyOfferGuard(PcOf(p), OfferDesc(1)) = "pass")
                => /\ C17_Inert("applyOffer", p)
                   /\ applyOfferGuard(pcs'[pcRef'[p]],
                          DecodePayload(Stringify(OfferDesc(1)))) = "pass"
          /\ (/\ applyRemoteAnswer(p, tx)
              /\ role[p] = "host"
              /\ applyAnswerGuard(PcOf(p), AnswerDesc(1)) = "pass")
                => /\ C17_Inert("applyAnswer", p)
                   /\ applyAnswerGuard(pcs'[pcRef'[p]],
                          DecodePayload(Stringify(AnswerDesc(1)))) = "pass"
      ]_vars

\* a host with a published offer pasted a text that does not parse
C17_Witness ==
    \E p \in Peers :
        /\ last = Failed("applyAnswer", p, "InvalidPayload", FALSE)
        /\ role[p] = "host"
        /\ offerPayload[p] # EmptyText
        /\ pcs[pcRef[p]].signalingState = "have-local-offer"
        /\ pcs[pcRef[p]].remoteDescription = NoDesc

----------------------------------------------------------------------------
\* Caption relay and translation: one instance connects, as host or as
\* guest, with the codes of the other party; the other party's messages
\* arrive on the caption channel; the user selects the translation language.

MaxMessages == 3
MaxRequests == 2

SpeechLanguages == {"en-US", "es-ES"}
TranslationLanguages == {"en", "es"}
CaptionTexts == {"hola", "adios"}

\* sourceLanguage.split("-")[0]
BaseLanguage(l) ==
    CASE l = "en-US" -> "en"
      [] l = "es-ES" -> "es"
      [] OTHER -> l

\* the object sent by sendCaption (the timestamp is never read)
CaptionPayload(text, language) ==
    [kind |-> "caption", text |-> text, language |-> language]

\* a well-formed message of another kind
PingPayload == [kind |-> "ping", text |-> "hola", language |-> "es-ES"]

\* Bodies the other party may send: captions, and bodies that are none.
MessageInputs ==
    {Stringify(CaptionPayload(t, l)) : t \in CaptionTexts, l \in SpeechLanguages}
    \cup {Stringify(PingPayload), <<LBrace, RBrace>>, <<Junk>>,
          StringifyUnclosed(CaptionPayload("hola", "es-ES"))}

\* payload.kind, payload.text, payload.language: undefined when absent
Member(payload, name) ==
    IF name \in DOMAIN payload THEN payload[name] ELSE "undefined"

\* a handler that takes every object for a caption
acceptsAnyObject(payload) == payload # [type |-> "parse-error", id |-> 0]

\* channel.onmessage: JSON.parse did not throw and payload.kind === "caption"
accepts(payload) ==
    payload # ParseError /\ Member(payload, "kind") = "caption"

\* a translateRemoteCaption that schedules without clearTimeout
translateNoCancel(d, text, src, tgt) ==
    IF text = "" \/ tgt = "en"
    THEN [d EXCEPT !.translated = NoTranslation]
    ELSE [d EXCEPT !.timer = [text |-> text, src |-> src, tgt |-> tgt],
                   !.timers = @ \cup {[text |-> text, src |-> src, tgt |-> tgt]}]

\* translateRemoteCaption(text, sourceLanguage) as created in a render with
\* translationLanguage = tgt, applied to d: the displayed translation, the
\* timer held in translationTimeoutRef and the timers pending.  It clears
\* the translation, or clears the timer held and schedules a new one.
translateRemoteCaption(d, text, src, tgt) ==
    IF text = "" \/ tgt = "en"
    THEN [d EXCEPT !.translated = NoTranslation]
    ELSE [d EXCEPT !.timer = [text |-> text, src |-> src, tgt |-> tgt],
                   !.timers = (@ \ {d.timer})
                                  \cup {[text |-> text, src |-> src, tgt |-> tgt]}]

\* the effect "Update translation when language changes"
translationEffect(d, caption, src, tgt) ==
    IF caption # "" /\ tgt # "en"
    THEN translateRemoteCaption(d, caption, src, tgt)
    ELSE [d EXCEPT !.translated = NoTranslation]

\* the caption channel of p is open
ChannelOpen(p) ==
    /\ dataChannelRef[p] # 0
    /\ ~pcs[dataChannelRef[p]].closed
    /\ IsIceUp(pcs[dataChannelRef[p]].iceConnectionState)

\* channel.onmessage, and the commit that follows it: the translation effect
\* runs when the caption text changed.  The handler reads translationLanguage
\* and translateRemoteCaption of the render that created it (closure).
onmessage(p, body, closure, op) ==
    /\ Settled
    /\ nMessages < MaxMessages
    /\ nMessages' = nMessages + 1
    /\ LET payload == JsonParse(body)
           text == Member(payload, "text")
           language == Member(payload, "language")
           d0 == [translated |-> remoteCaptionTranslated[p],
                  timer |-> translationTimeoutRef[p],
                  timers |-> debounceTimers[p]]
           d1 == IF closure # "en"
                 THEN translateRemoteCaption(d0, text, language, closure)
                 ELSE [d0 EXCEPT !.translated = NoTranslation]
           d2 == IF text # remoteCaption[p]
                 THEN translationEffect(d1, text, language, translationLanguage[p])
                 ELSE d1
       IN  IF accepts(payload)
           THEN /\ remoteCaption' = [remoteCaption EXCEPT ![p] = text]
                /\ remoteCaptionLanguageRef' =
                       [remoteCaptionLanguageRef EXCEPT ![p] = language]
                /\ remoteCaptionTranslated' =
                       [remoteCaptionTranslated EXCEPT ![p] = d2.translated]
                /\ translationTimeoutRef' =
                       [translationTimeoutRef EXCEPT ![p] = d2.timer]
                /\ debounceTimers' = [debounceTimers EXCEPT ![p] = d2.timers]
                /\ last' = Step(op, p, "ok", FALSE)
           ELSE /\ last' = Step(op, p, "ignored", FALSE)
                /\ UNCHANGED <<remoteCaption, remoteCaptionLanguageRef,
                               remoteCaptionTranslated, translationTimeoutRef,
                               debounceTimers>>
    /\ UNCHANGED <<translationLanguage, isTranslating, translations,
                   closureLanguage, nIssued>>
    /\ UNCHANGED <<hookVars, refVars, recVars, streams, tasks, nCalls>>
    /\ UNCHANGED speechVars

\* a message of the environment arrives on the caption channel held in
\* dataChannelRef
ChannelMessage(p, body) ==
    /\ ChannelOpen(p)
    /\ onmessage(p, body, closureLanguage[p], "channelMessage")
    /\ UNCHANGED pcs

\* translateText without a request: same language, or same base language
translatesLocally(a) ==
    a.src = a.tgt \/ BaseLanguage(a.src) = BaseLanguage(a.tgt)

\* what translateText resolves with: the translation into the target
\* language, or the original text when the request failed
translateText(a, ok) ==
    IF ok /\ ~translatesLocally(a)
    THEN [text |-> a.text, lang |-> a.tgt]
    ELSE [text |-> a.text, lang |-> BaseLanguage(a.src)]

\* A debounce timer fires: setIsTranslating(true) and translateText.  A
\* call that needs no request resolves in the same task.
TranslationTimeout(p) ==
    /\ Settled
    /\ nIssued[p] < MaxRequests
    /\ \E a \in debounceTimers[p] :
       LET n == nIssued[p] + 1
       IN  /\ nIssued' = [nIssued EXCEPT ![p] = n]
           /\ debounceTimers' = [debounceTimers EXCEPT ![p] = @ \ {a}]
           /\ translationTimeoutRef' =
                  [translationTimeoutRef EXCEPT ![p] = IF @ = a THEN NoTimer ELSE @]
           /\ IF translatesLocally(a)
              THEN /\ remoteCaptionTranslated' =
                          [remoteCaptionTranslated EXCEPT ![p] = translateText(a, TRUE)]
                   /\ isTranslating' = [isTranslating EXCEPT ![p] = FALSE]
                   /\ UNCHANGED translations
              ELSE /\ isTranslating' = [isTranslating EXCEPT ![p] = TRUE]
                   /\ translations' =
                          [translations EXCEPT ![p] = @ \cup
                              {[n |-> n, text |-> a.text, src |-> a.src, tgt |-> a.tgt]}]
                   /\ UNCHANGED remoteCaptionTranslated
    /\ last' = Step("translationTimeout", p, "ok", FALSE)
    /\ UNCHANGED <<remoteCaption, remoteCaptionLanguageRef, translationLanguage,
                   closureLanguage, nMessages>>
    /\ UNCHANGED <<hookVars, refVars, recVars, pcs, streams, tasks, nCalls>>
    /\ UNCHANGED speechVars

\* `await translateText(...)` resumes: setRemoteCaptionTranslated(translated)
\* and, in finally, setIsTranslating(false).
TranslationSettled(p, r, ok) ==
    /\ Settled
    /\ r \in translations[p]
    /\ translations' = [translations EXCEPT ![p] = @ \ {r}]
    /\ remoteCaptionTranslated' =
           [remoteCaptionTranslated EXCEPT ![p] = translateText(r, ok)]
    /\ isTranslating' = [isTranslating EXCEPT ![p] = FALSE]
    /\ last' = Step("translationSettled", p, "ok", FALSE)
    /\ UNCHANGED <<remoteCaption, remoteCaptionLanguageRef, translationLanguage,
                   translationTimeoutRef, closureLanguage, nIssued, nMessages,
                   debounceTimers>>
    /\ UNCHANGED <<hookVars, refVars, recVars, pcs, streams, tasks, nCalls>>
    /\ UNCHANGED speechVars

\* setTranslationLanguage(languageCode) and the commit that follows it
handleSetTranslationLanguage(p, languageCode) ==
    /\ Settled
    /\ languageCode # translationLanguage[p]
    /\ translationLanguage' = [translationLanguage EXCEPT ![p] = languageCode]
    /\ LET d == translationEffect(
                    [translated |-> remoteCaptionTranslated[p],
                     timer |-> translationTimeoutRef[p],
                     timers |-> debounceTimers[p]],
                    remoteCaption[p], remoteCaptionLanguageRef[p], languageCode)
       IN  /\ remoteCaptionTranslated' =
                  [remoteCaptionTranslated EXCEPT ![p] = d.translated]
           /\ translationTimeoutRef' = [translationTimeoutRef EXCEPT ![p] = d.timer]
           /\ debounceTimers' = [debounceTimers EXCEPT ![p] = d.timers]
    /\ last' = Step("setTranslationLanguage", p, "ok", FALSE)
    /\ UNCHANGED <<remoteCaption, remoteCaptionLanguageRef, isTranslating,
                   translations, closureLanguage, nIssued, nMessages>>
    /\ UNCHANGED <<hookVars, refVars, recVars, pcs, streams, tasks, nCalls>>
    /\ UNCHANGED speechVars

\* createOffer is re-created in the render that follows setRole: the handler
\* it installs on the channel reads the translationLanguage of that render.
StartRelay(p, r) ==
    /\ role[p] = "none"
    /\ StartAs(p, r)
    /\ nCalls' = nCalls
    /\ closureLanguage' = [closureLanguage EXCEPT ![p] = translationLanguage[p]]
    /\ UNCHANGED <<remoteCaption, remoteCaptionLanguageRef, remoteCaptionTranslated,
                   translationLanguage, isTranslating, translationTimeoutRef,
                   translations, nIssued, nMessages, debounceTimers>>
    /\ UNCHANGED speechVars

\* ensurePeerConnection is created once: the handler that pc.ondatachannel
\* installs reads the translationLanguage of the first render.
AnnounceRelay(k) ==
    /\ ChannelAnnounce(k)
    /\ nCalls' = nCalls
    /\ closureLanguage' = [closureLanguage EXCEPT ![pcs[k].owner] = "en"]
    /\ UNCHANGED <<remoteCaption, remoteCaptionLanguageRef, remoteCaptionTranslated,
                   translationLanguage, isTranslating, translationTimeoutRef,
                   translations, nIssued, nMessages, debounceTimers>>
    /\ UNCHANGED speechVars

NextC ==
    \/ StartRelay(Solo, "host")
    \/ StartRelay(Solo, "guest")
    \/ Event /\ \E t \in TaskIds : MediaGranted(Solo, t)
    \/ Event /\ \E t \in TaskIds : AfterMedia(Solo, t)
    \/ Event /\ phase[Solo] = "waiting-offer" /\ offerPayload[Solo] = EmptyText
             /\ NoTasks(Solo) /\ createOffer(Solo)
    \/ Event /\ phase[Solo] = "waiting-offer" /\ offerPayload[Solo] # EmptyText
             /\ NoTasks(Solo)
             /\ applyRemoteAnswer(Solo, Stringify(AnswerDesc(1)))
    \/ Event /\ phase[Solo] = "waiting-offer" /\ NoTasks(Solo)
             /\ applyRemoteOfferAndCreateAnswer(Solo, Stringify(OfferDesc(1)))
    \/ Event /\ \E k \in PcIds : ChainResume(k)
    \/ Event /\ \E k \in PcIds : GatheringComplete(k)
    \/ Event /\ \E t \in TaskIds : Gathered(Solo, t)
    \/ Event /\ NoTasks(Solo)
             /\ \E k \in PcIds, s \in {"checking", "connected", "completed"} :
                    IceChange(k, s)
    \/ Event /\ \E k \in PcIds : IceDeliver(k)
    \/ \E k \in PcIds : AnnounceRelay(k)
    \/ Event /\ RecognitionEffect(Solo)
    \/ Event /\ RecognitionTimer(Solo)
    \/ \E body \in MessageInputs : ChannelMessage(Solo, body)
    \/ TranslationTimeout(Solo)
    \/ \E r \in translations[Solo], ok \in BOOLEAN : TranslationSettled(Solo, r, ok)
    \/ \E l \in TranslationLanguages : handleSetTranslationLanguage(Solo, l)

SpecC == Init /\ [][NextC]_vars

\* bodies that are no caption
DiscardedBodies ==
    {Stringify(PingPayload), <<LBrace, RBrace>>, <<Junk>>,
     StringifyUnclosed(CaptionPayload("hola", "es-ES"))}

\* C18: a message on the caption channel whose body does not parse, or
\* whose kind is not "caption" (a ping, an empty object), is discarded: the
\* remote caption, its language, the displayed translation and the pending
\* translation stay as they were, no error is set and the phase is kept.
C18_BadMessageDiscarded ==
    [][\A p \in Peers, body \in DiscardedBodies :
          ChannelMessage(p, body)
            => /\ remoteCaption' = remoteCaption
               /\ remoteCaptionLanguageRef' = remoteCaptionLanguageRef
               /\ remoteCaptionTranslated' = remoteCaptionTranslated
               /\ translationTimeoutRef' = translationTimeoutRef
               /\ translations' = translations
               /\ phase' = phase
               /\ last'.setError = "none"
      ]_vars

\* a message was discarded while a caption and its translation were displayed
C18_Witness ==
    \E p \in Peers :
        /\ last = Step("channelMessage", p, "ignored", FALSE)
        /\ remoteCaption[p] # ""
        /\ remoteCaptionTranslated[p] # NoTranslation

\* C19 (as stated): when translation responses arrive out of order, only the
\* result of the request issued last is displayed: the response of a request
\* never arrives to be displayed after that of a request issued later.
C19_LatestResponseOnly ==
    [][\A p \in Peers : \A r \in translations[p] :
          (last'.op = "translationSettled" /\ r \notin translations'[p])
            => \A n \in (r.n + 1)..nIssued[p] :
                  \E q \in translations[p] : q.n = n
      ]_vars

----------------------------------------------------------------------------
\* The speech recognizer in detail: each run of the recognition effect in
\* phase "connected" builds a recognizer (a generation) whose handlers and
\* timers close over that run's `phase` and `recognition`.  Nothing cancels
\* the timers; the effect has no cleanup function.

UnmadeGens(p) == {g \in GenIds : ~recognizers[p][g].made}
FreshGen(p) == CHOOSE g \in UnmadeGens(p) : \A h \in UnmadeGens(p) : g <= h

\* stopRecognition on the objects: the handlers of recognitionRef.current
\* are detached and it is stopped
StopRecognizer(R, ref) ==
    IF ref = 0 THEN R
    ELSE [R EXCEPT ![ref].handlers = FALSE, ![ref].active = FALSE]

\* The body of the recognition effect for a render with phase ph and
\* captionsLanguage lang: the recognizers afterwards.
EffectRecognizers(p, ph, lang) ==
    LET R == StopRecognizer(recognizers[p], recognitionRef[p])
    IN  IF captionsSupported /\ ph = "connected"
        THEN [R EXCEPT ![FreshGen(p)] =
                 [made |-> TRUE, lang |-> lang, active |-> FALSE,
                  handlers |-> TRUE, startTimer |-> "delay",
                  restartTimer |-> "none", sendTimers |-> {}]]
        ELSE R

CanRunEffect(p, ph) == ph = "connected" => UnmadeGens(p) # {}

\* The local caption after the recognition effect: stopRecognition() ends
\* with setLocalCaption(""); when connected it is called only if a
\* recognizer is held.
EffectCaption(p, ph) ==
    IF captionsSupported /\ ph = "connected" /\ recognitionRef[p] = 0
    THEN localCaption[p]
    ELSE ""

\* the recognition effect, run for a new phase
SpeechEffect(p) ==
    /\ ~MicroPending
    /\ effectPhase[p] # phase[p]
    /\ CanRunEffect(p, phase[p])
    /\ effectPhase' = [effectPhase EXCEPT ![p] = phase[p]]
    /\ recognizers' =
           [recognizers EXCEPT ![p] = EffectRecognizers(p, phase[p], captionsLanguage[p])]
    /\ recognitionRef' = [recognitionRef EXCEPT ![p] = stopRecognition(@)]
    /\ localCaption' = [localCaption EXCEPT ![p] = EffectCaption(p, phase[p])]
    /\ last' = Step("recognitionEffect", p, "ok", FALSE)
    /\ UNCHANGED <<hookVars, refVars, recTimer, pcs, streams, tasks, nCalls>>
    /\ UNCHANGED <<relayVars, captionsLanguage, nResults>>

\* setCaptionsLanguage(languageCode) and the commit that follows it: the
\* recognition effect runs for the new language
setCaptionsLanguage(p, languageCode) ==
    /\ Settled
    /\ languageCode # captionsLanguage[p]
    /\ CanRunEffect(p, phase[p])
    /\ captionsLanguage' = [captionsLanguage EXCEPT ![p] = languageCode]
    /\ recognizers' =
           [recognizers EXCEPT ![p] = EffectRecognizers(p, phase[p], languageCode)]
    /\ recognitionRef' = [recognitionRef EXCEPT ![p] = stopRecognition(@)]
    /\ localCaption' = [localCaption EXCEPT ![p] = EffectCaption(p, phase[p])]
    /\ last' = Step("setCaptionsLanguage", p, "ok", FALSE)
    /\ UNCHANGED <<hookVars, refVars, effectPhase, recTimer, pcs, streams,
                   tasks, nCalls>>
    /\ UNCHANGED <<relayVars, nResults>>

\* startRecognitionWithDelay of generation g after its 1000 ms, and its
\* 2000 ms retry.  `phase` is "connected" in every closure of g.
StartTimer(p, g) ==
    /\ Settled
    /\ recognizers[p][g].startTimer # "none"
    /\ IF recognitionRef[p] # 0
       THEN /\ recognizers' = [recognizers EXCEPT ![p][g].startTimer = "none"]
            /\ UNCHANGED recognitionRef
       ELSE IF recognizers[p][g].startTimer = "retry"
       THEN /\ recognizers' = [recognizers EXCEPT ![p][g].startTimer = "delay"]
            /\ UNCHANGED recognitionRef
       ELSE IF ~verifyMicrophone(p)
       THEN /\ recognizers' = [recognizers EXCEPT ![p][g].startTimer = "retry"]
            /\ UNCHANGED recognitionRef
       ELSE /\ recognizers' = [recognizers EXCEPT ![p][g].startTimer = "none",
                                                  ![p][g].active = TRUE]
            /\ recognitionRef' = [recognitionRef EXCEPT ![p] = g]
    /\ last' = Step("startTimer", p, "ok", FALSE)
    /\ UNCHANGED <<hookVars, refVars, effectPhase, recTimer, pcs, streams,
                   tasks, nCalls>>
    /\ UNCHANGED <<relayVars, captionsLanguage, localCaption, nResults>>

\* the restart check of onend and of its timers
isCurrentRecognizer(ref, g) == ref = g

\* The recognizer of generation g ends by itself (silence, a transient
\* error): recognition.onend, when still attached.
RecognizerEnd(p, g) ==
    /\ Settled
    /\ recognizers[p][g].active
    /\ IF ~recognizers[p][g].handlers
       THEN /\ recognizers' = [recognizers EXCEPT ![p][g].active = FALSE]
            /\ UNCHANGED recognitionRef
       ELSE IF recognitionRef[p] = g
       THEN /\ recognizers' = [recognizers EXCEPT ![p][g].active = FALSE,
                                                  ![p][g].restartTimer = "restart"]
            /\ UNCHANGED recognitionRef
       ELSE /\ recognizers' = [recognizers EXCEPT ![p][g].active = FALSE]
            /\ recognitionRef' = [recognitionRef EXCEPT ![p] = 0]
    /\ last' = Step("recognizerEnd", p, "ok", FALSE)
    /\ UNCHANGED <<hookVars, refVars, effectPhase, recTimer, pcs, streams,
                   tasks, nCalls>>
    /\ UNCHANGED <<relayVars, captionsLanguage, localCaption, nResults>>

\* The 500 ms timer of onend: restart when g is still the recognizer held
\* and the microphone is live, else wait 2000 ms more.
RestartTimer(p, g) ==
    /\ Settled
    /\ recognizers[p][g].restartTimer = "restart"
    /\ recognizers' =
           [recognizers EXCEPT ![p][g] =
               IF ~isCurrentRecognizer(recognitionRef[p], g)
               THEN [@ EXCEPT !.restartTimer = "none"]
               ELSE IF verifyMicrophone(p)
               THEN [@ EXCEPT !.restartTimer = "none", !.active = TRUE]
               ELSE [@ EXCEPT !.restartTimer = "late"]]
    /\ last' = Step("restartTimer", p, "ok", FALSE)
    /\ UNCHANGED <<hookVars, refVars, recVars, pcs, streams, tasks, nCalls>>
    /\ UNCHANGED <<relayVars, captionsLanguage, localCaption, nResults>>

\* the 2000 ms timer of onend
LateRestart(p, g) ==
    /\ Settled
    /\ recognizers[p][g].restartTimer = "late"
    /\ recognizers' =
           [recognizers EXCEPT ![p][g] =
               IF isCurrentRecognizer(recognitionRef[p], g)
               THEN [@ EXCEPT !.restartTimer = "none", !.active = TRUE]
               ELSE [@ EXCEPT !.restartTimer = "none"]]
    /\ last' = Step("lateRestart", p, "ok", FALSE)
    /\ UNCHANGED <<hookVars, refVars, recVars, pcs, streams, tasks, nCalls>>
    /\ UNCHANGED <<relayVars, captionsLanguage, localCaption, nResults>>

\* recognition.onerror of generation g with an error that is not transient
\* ("not-allowed", "service-not-allowed"): stopRecognition()
RecognizerError(p, g) ==
    /\ Settled
    /\ recognizers[p][g].active /\ recognizers[p][g].handlers
    /\ recognizers' =
           [recognizers EXCEPT ![p] = StopRecognizer(@, recognitionRef[p])]
    /\ recognitionRef' = [recognitionRef EXCEPT ![p] = stopRecognition(@)]
    /\ localCaption' = [localCaption EXCEPT ![p] = ""]
    /\ last' = Step("recognizerError", p, "ok", FALSE)
    /\ UNCHANGED <<hookVars, refVars, effectPhase, recTimer, pcs, streams,
                   tasks, nCalls>>
    /\ UNCHANGED <<relayVars, captionsLanguage, nResults>>

\* The audio track of the local stream ends by itself (the device is
\* removed, the permission revoked): readyState is no longer "live".
TrackEnded(p) ==
    /\ Settled
    /\ verifyMicrophone(p)
    /\ streams' = [streams EXCEPT ![localStreamRef[p]] = "stopped"]
    /\ last' = Step("trackEnded", p, "ok", FALSE)
    /\ UNCHANGED <<hookVars, refVars, recVars, pcs, tasks, nCalls>>
    /\ UNCHANGED <<relayVars, speechVars>>

\* hangUp with the recognizer objects: cleanupPeerConnection ends with
\* stopRecognition()
HangUpSpeech(p) ==
    /\ hangUp(p)
    /\ nCalls' = nCalls
    /\ recognizers' =
           [recognizers EXCEPT ![p] = StopRecognizer(@, recognitionRef[p])]
    /\ localCaption' = [localCaption EXCEPT ![p] = ""]
    /\ UNCHANGED <<relayVars, captionsLanguage, nResults>>

\* the session studied is the first one of the instance
FirstSession == UnusedStreams = StreamIds /\ UnmadePcs = PcIds

NextR ==
    \/ Event /\ role[Solo] = "none" /\ FirstSession /\ startAsHost(Solo)
    \/ Event /\ \E t \in TaskIds : MediaGranted(Solo, t)
    \/ Event /\ \E t \in TaskIds : AfterMedia(Solo, t)
    \/ Event /\ phase[Solo] = "waiting-offer" /\ offerPayload[Solo] = EmptyText
             /\ NoTasks(Solo) /\ createOffer(Solo)
    \/ Event /\ phase[Solo] = "waiting-offer" /\ offerPayload[Solo] # EmptyText
             /\ NoTasks(Solo)
             /\ applyRemoteAnswer(Solo, Stringify(AnswerDesc(1)))
    \/ Event /\ \E k \in PcIds : ChainResume(k)
    \/ Event /\ \E k \in PcIds : GatheringComplete(k)
    \/ Event /\ \E t \in TaskIds : Gathered(Solo, t)
    \/ Event /\ \E k \in PcIds, s \in {"checking", "connected", "disconnected"} :
                    IceChange(k, s)
    \/ Event /\ \E k \in PcIds : IceDeliver(k)
    \/ Event /\ \E k \in PcIds : IceDrop(k)
    \/ recognitionRef[Solo] # 0 /\ TrackEnded(Solo)
    \/ HangUpSpeech(Solo)
    \/ SpeechEffect(Solo)
    \/ \E l \in SpeechLanguages : setCaptionsLanguage(Solo, l)
    \/ \E g \in GenIds : StartTimer(Solo, g)
    \/ \E g \in GenIds : RecognizerEnd(Solo, g)
    \/ \E g \in GenIds : RestartTimer(Solo, g)
    \/ \E g \in GenIds : LateRestart(Solo, g)
    \/ \E g \in GenIds : RecognizerError(Solo, g)

SpecR == Init /\ [][NextR]_vars

\* the generation of the last run of the recognition effect: the recognizer
\* it built, none when it ran outside "connected" or after a hang-up
MadeGens(p) == {g \in GenIds : recognizers[p][g].made}
CurrentGen(p) ==
    IF effectPhase[p] = "connected" /\ phase[p] = "connected" /\ MadeGens(p) # {}
    THEN CHOOSE g \in MadeGens(p) : \A h \in MadeGens(p) : h <= g
    ELSE 0

ActiveGens(p) == {g \in GenIds : recognizers[p][g].active}

\* C20 (as stated): a generation whose end event or restart timer fires
\* after a newer generation has been started (language change, phase change
\* or stop) never restarts a recognizer, and at most one recognizer is
\* active at any time.
C20_StaleNeverRestarts ==
    [][\A p \in Peers :
          /\ \A g \in GenIds :
                (/\ last'.op \in {"restartTimer", "lateRestart"}
                 /\ recognizers'[p][g].active /\ ~recognizers[p][g].active)
                    => g = CurrentGen(p)
          /\ Cardinality(ActiveGens(p)) <= 1
      ]_vars

----------------------------------------------------------------------------
\* C21 (as stated): once the recognition effect has run for the current
\* phase, a recognizer is active only in phase "connected" with speech
\* recognition supported: leaving "connected" releases the recognizer, and
\* no start, retry or restart timer scheduled while connected starts a
\* recognizer after the phase has left "connected".
C21_ActiveOnlyConnected ==
    \A p \in Peers :
        (effectPhase[p] = phase[p] /\ ActiveGens(p) # {})
            => (phase[p] = "connected" /\ captionsSupported)

----------------------------------------------------------------------------
\* Caption capture: the results of the recognizer and sendCaption.  The host
\* of a first session speaks; the caption channel opens with the transport.

MaxResults == 2

\* result[0].transcript.trim() of the last result of an event
ResultTexts == {"", "hola"}

\* Date.now(): read as the number of recognizer events so far
Now == nResults

\* the CaptionPayload object built by sendCaption
SentPayload(text, language, now) ==
    [kind |-> "caption", text |-> text, language |-> language, timestamp |-> now]

\* dataChannelRef.current.send(JSON.stringify(payload)) for utterance u, on
\* the objects
ChannelSend(p, u, text, language, now) ==
    [pcs EXCEPT ![dataChannelRef[p]].sent =
        Append(@, [u |-> u, data |-> Stringify(SentPayload(text, language, now))])]

\* a handler that forwards every result
forwardsAll(isFinal) == TRUE

\* lastResult && lastResult.isFinal: the result is forwarded to the channel
forwards(isFinal) == isFinal

\* recognition.onresult of generation g with an event whose last result has
\* the transcript `text` and the flag isFinal, and sendCaption() for a final
\* one; `captionsLanguage` is the language of the effect run that built g.
RecognizerResult(p, g, text, isFinal) ==
    /\ Settled
    /\ recognizers[p][g].active /\ recognizers[p][g].handlers
    /\ nResults < MaxResults
    /\ nResults' = nResults + 1
    /\ LET u == nResults + 1
       IN  IF text = ""
           THEN /\ last' = Step("result", p, "empty", FALSE)
                /\ UNCHANGED <<localCaption, recognizers, pcs>>
           ELSE /\ localCaption' = [localCaption EXCEPT ![p] = text]
                /\ IF ~forwards(isFinal)
                   THEN /\ last' = Step("result", p, "interim", FALSE)
                        /\ UNCHANGED <<recognizers, pcs>>
                   ELSE IF ChannelOpen(p)
                   THEN /\ pcs' = ChannelSend(p, u, text, recognizers[p][g].lang, u)
                        /\ last' = Step("result", p, "sent", FALSE)
                        /\ UNCHANGED recognizers
                   ELSE /\ recognizers' =
                               [recognizers EXCEPT ![p][g].sendTimers =
                                   @ \cup {[u |-> u, text |-> text]}]
                        /\ last' = Step("result", p, "deferred", FALSE)
                        /\ UNCHANGED pcs
    /\ UNCHANGED <<hookVars, refVars, recVars, streams, tasks, nCalls>>
    /\ UNCHANGED <<relayVars, captionsLanguage>>

\* a sender that keeps its timer while the channel is not open
retryUntilOpen(open, timers, r) == IF open THEN timers \ {r} ELSE timers

\* the timers of sendCaption after timer r has fired: the callback
\* schedules nothing
afterRetry(open, timers, r) == timers \ {r}

\* The 500 ms timer of sendCaption fires for utterance r: the caption is
\* sent if the channel is open now, else it is dropped with a warning.
SendRetry(p, g, r) ==
    /\ Settled
    /\ r \in recognizers[p][g].sendTimers
    /\ recognizers' =
           [recognizers EXCEPT ![p][g].sendTimers = afterRetry(ChannelOpen(p), @, r)]
    /\ IF ChannelOpen(p)
       THEN /\ pcs' = ChannelSend(p, r.u, r.text, recognizers[p][g].lang, Now)
            /\ last' = Step("sendRetry", p, "sent", FALSE)
       ELSE /\ last' = Step("sendRetry", p, "dropped", FALSE)
            /\ UNCHANGED pcs
    /\ UNCHANGED <<hookVars, refVars, recVars, streams, tasks, nCalls>>
    /\ UNCHANGED <<relayVars, captionsLanguage, localCaption, nResults>>

NextS ==
    \/ Event /\ role[Solo] = "none" /\ FirstSession /\ startAsHost(Solo)
    \/ Event /\ \E t \in TaskIds : MediaGranted(Solo, t)
    \/ Event /\ \E t \in TaskIds : AfterMedia(Solo, t)
    \/ Event /\ phase[Solo] = "waiting-offer" /\ offerPayload[Solo] = EmptyText
             /\ NoTasks(Solo) /\ createOffer(Solo)
    \/ Event /\ phase[Solo] = "waiting-offer" /\ offerPayload[Solo] # EmptyText
             /\ NoTasks(Solo)
             /\ applyRemoteAnswer(Solo, Stringify(AnswerDesc(1)))
    \/ Event /\ \E k \in PcIds : ChainResume(k)
    \/ Event /\ \E k \in PcIds : GatheringComplete(k)
    \/ Event /\ \E t \in TaskIds : Gathered(Solo, t)
    \/ Event /\ \E k \in PcIds, s \in {"checking", "connected"} : IceChange(k, s)
    \/ Event /\ \E k \in PcIds : IceDeliver(k)
    \/ HangUpSpeech(Solo)
    \/ SpeechEffect(Solo)
    \/ \E l \in SpeechLanguages : setCaptionsLanguage(Solo, l)
    \/ \E g \in GenIds : StartTimer(Solo, g)
    \/ \E g \in GenIds, text \in ResultTexts, isFinal \in BOOLEAN :
           RecognizerResult(Solo, g, text, isFinal)
    \/ \E g \in GenIds : \E r \in recognizers[Solo][g].sendTimers :
           SendRetry(Solo, g, r)

SpecS == Init /\ [][NextS]_vars

\* the messages sent for utterance u, and the retry timers pending for it
SentFor(u) ==
    {<<k, i>> \in PcIds \X (1..MaxResults) :
        i <= Len(pcs[k].sent) /\ pcs[k].sent[i].u = u}
TimersFor(u) ==
    {<<p, g>> \in Peers \X GenIds :
        \E r \in recognizers[p][g].sendTimers : r.u = u}
Utterances == 1..MaxResults

\* C22: a caption is put on the channel only while the channel is open; a
\* final result that finds the channel not open schedules one retry and
\* sends nothing; the retry sends if the channel is open by then and
\* schedules nothing more.  So for every utterance at most one message is
\* sent, after at most two attempts.
C22_SendAtMostTwice ==
    /\ [](\A u \in Utterances :
             Cardinality(SentFor(u)) + Cardinality(TimersFor(u)) <= 1)
    /\ [][\A p \in Peers :
            /\ \A k \in PcIds :
                  (pcs'[k].sent # pcs[k].sent /\ pcs'[k].sent # << >>)
                      => /\ last'.op \in {"result", "sendRetry"}
                         /\ k = dataChannelRef[last'.peer]
                         /\ ChannelOpen(last'.peer)
                         /\ Len(pcs'[k].sent) = Len(pcs[k].sent) + 1
            /\ \A g \in GenIds, text \in ResultTexts, u \in Utterances :
                  (/\ RecognizerResult(p, g, text, TRUE)
                   /\ text # "" /\ ~ChannelOpen(p) /\ u = nResults + 1)
                      => /\ SentFor(u)' = {}
                         /\ TimersFor(u)' = {<<p, g>>}
            /\ \A g \in GenIds : \A r \in recognizers[p][g].sendTimers :
                  SendRetry(p, g, r)
                      => /\ TimersFor(r.u)' = {}
                         /\ SentFor(r.u) = {}
                         /\ Cardinality(SentFor(r.u)') = IF ChannelOpen(p) THEN 1 ELSE 0
         ]_vars

\* an utterance finalized before the channel opened was sent by its retry
C22_Witness ==
    /\ last.op = "sendRetry" /\ last.out = "sent"
    /\ \E u \in Utterances : Cardinality(SentFor(u)) = 1 /\ TimersFor(u) = {}

----------------------------------------------------------------------------
\* A second channel labelled "captions": the other party opens one more
\* data channel on the connection while a caption channel is already held.

\* pc.ondatachannel for a further channel with the label "captions": the
\* reference held is kept; channel.onopen, onmessage and onerror are set on
\* the channel announced.
ExtraAnnounce(k) ==
    /\ Settled
    /\ pcs[k].made /\ ~pcs[k].closed
    /\ IsIceUp(pcs[k].iceConnectionState)
    /\ dataChannelRef[pcs[k].owner] # 0
    /\ ~pcs[k].extraChannel
    /\ pcs' = [pcs EXCEPT ![k].extraChannel = TRUE]
    /\ dataChannelRef' =
           [dataChannelRef EXCEPT ![pcs[k].owner] = IF @ = 0 THEN k ELSE @]
    /\ last' = Step("extraAnnounce", pcs[k].owner, "ok", FALSE)
    /\ UNCHANGED <<hookVars, pcRef, localStreamRef, recVars, streams, tasks, nCalls>>
    /\ UNCHANGED <<relayVars, speechVars>>

\* a message arrives on that channel: its handler was created by
\* ensurePeerConnection in the first render (translationLanguage "en")
ExtraChannelMessage(k, body) ==
    /\ pcs[k].made /\ ~pcs[k].closed
    /\ pcs[k].extraChannel
    /\ IsIceUp(pcs[k].iceConnectionState)
    /\ onmessage(pcs[k].owner, body, "en", "extraChannelMessage")
    /\ UNCHANGED pcs

NextX ==
    \/ StartRelay(Solo, "host")
    \/ StartRelay(Solo, "guest")
    \/ Event /\ \E t \in TaskIds : MediaGranted(Solo, t)
    \/ Event /\ \E t \in TaskIds : AfterMedia(Solo, t)
    \/ Event /\ phase[Solo] = "waiting-offer" /\ offerPayload[Solo] = EmptyText
             /\ NoTasks(Solo) /\ createOffer(Solo)
    \/ Event /\ phase[Solo] = "waiting-offer" /\ offerPayload[Solo] # EmptyText
             /\ NoTasks(Solo)
             /\ applyRemoteAnswer(Solo, Stringify(AnswerDesc(1)))
    \/ Event /\ phase[Solo] = "waiting-offer" /\ NoTasks(Solo)
             /\ applyRemoteOfferAndCreateAnswer(Solo, Stringify(OfferDesc(1)))
    \/ Event /\ \E k \in PcIds : ChainResume(k)
    \/ Event /\ \E k \in PcIds : GatheringComplete(k)
    \/ Event /\ \E t \in TaskIds : Gathered(Solo, t)
    \/ Event /\ NoTasks(Solo)
             /\ \E k \in PcIds, s \in {"checking", "connected", "completed"} :
                    IceChange(k, s)
    \/ Event /\ \E k \in PcIds : IceDeliver(k)
    \/ \E k \in PcIds : AnnounceRelay(k)
    \/ \E k \in PcIds : ExtraAnnounce(k)
    \/ Event /\ RecognitionEffect(Solo)
    \/ Event /\ RecognitionTimer(Solo)
    \/ \E body \in MessageInputs : ChannelMessage(Solo, body)
    \/ \E k \in PcIds, body \in MessageInputs : ExtraChannelMessage(k, body)

SpecX == Init /\ [][NextX]_vars

\* C23 (as stated): there is one caption channel per session: a later
\* announcement of a channel labelled "captions" does not replace the
\* reference held, and a message that arrives on the second channel never
\* updates the remote caption.
C23_SecondChannelIgnored ==
    [][/\ last'.op = "extraAnnounce" => dataChannelRef' = dataChannelRef
       /\ last'.op = "extraChannelMessage"
             => /\ remoteCaption' = remoteCaption
                /\ remoteCaptionLanguageRef' = remoteCaptionLanguageRef
      ]_vars

\* the message put on the channel of pc k by the step, if any
NewMessages(k) ==
    IF Len(pcs'[k].sent) > Len(pcs[k].sent)
    THEN {pcs'[k].sent[i] : i \in (Len(pcs[k].sent) + 1)..Len(pcs'[k].sent)}
    ELSE {}

\* C24: a caption message is put on the channel only for a result marked
\* final.  An interim result sets the local caption and nothing else: no
\* message, no retry timer.  A final result puts at most one message on the
\* channel, and every message sent for a result is a caption object with
\* the text of that result, the language its recognizer was configured with
\* (recognition.lang = captionsLanguage of the effect run) and a timestamp.
C24_OnlyFinalSent ==
    [][\A p \in Peers, g \in GenIds, text \in ResultTexts :
          /\ RecognizerResult(p, g, text, FALSE)
                => /\ pcs' = pcs
                   /\ recognizers' = recognizers
                   /\ localCaption'[p] = IF text = "" THEN localCaption[p] ELSE text
                   /\ UNCHANGED <<hookVars, refVars, recVars, relayVars>>
          /\ RecognizerResult(p, g, text, TRUE)
                => /\ Cardinality(UNION {NewMessages(k) : k \in PcIds}) <= 1
                   /\ \A k \in PcIds : \A m \in NewMessages(k) :
                         LET payload == JsonParse(m.data)
                         IN  /\ m.u = nResults'
                             /\ DOMAIN payload = {"kind", "text", "language", "timestamp"}
                             /\ payload.kind = "caption"
                             /\ payload.text = text /\ text # ""
                             /\ payload.language = recognizers[p][g].lang
                             /\ payload.timestamp = Now'
          /\ \A k \in PcIds :
                NewMessages(k) # {} => last'.op \in {"result", "sendRetry"}
      ]_vars

\* an interim result arrived while the caption channel was open
C24_Witness ==
    \E p \in Peers :
        /\ last = Step("result", p, "interim", FALSE)
        /\ ChannelOpen(p)
        /\ localCaption[p] = "hola"
        /\ \E k \in PcIds : pcs[k].sent # << >>

----------------------------------------------------------------------------
\* C25 (as stated): when a translation request fails, the displayed
\* translation is cleared and no retry is issued: no request and no timer
\* is added, and the translation displayed afterwards is empty, neither an
\* earlier translation nor the untranslated text.
C25_FailureClears ==
    [][\A p \in Peers : \A r \in translations[p] :
          TranslationSettled(p, r, FALSE)
            => /\ remoteCaptionTranslated'[p] = NoTranslation
               /\ translations'[p] \subseteq translations[p]
               /\ translationTimeoutRef'[p] = translationTimeoutRef[p]
               /\ nIssued' = nIssued
      ]_vars

\* the configured target language differs from the language of a caption
Differs(language, target) ==
    language # target /\ BaseLanguage(language) # BaseLanguage(target)

\* C26 (as stated): when a caption is received, a translation request for it
\* is scheduled exactly when the configured target language differs from
\* the language of the caption; when the two are the same no request is
\* made and no translation is displayed.
C26_ScheduledIffDiffers ==
    [][\A p \in Peers, body \in MessageInputs :
          (ChannelMessage(p, body) /\ accepts(JsonParse(body)))
            => LET text == Member(JsonParse(body), "text")
                   language == Member(JsonParse(body), "language")
                   target == translationLanguage[p]
               IN  /\ Differs(language, target)
                        <=> translationTimeoutRef'[p] =
                                [text |-> text, src |-> language, tgt |-> target]
                   /\ ~Differs(language, target)
                        => /\ remoteCaptionTranslated'[p] = NoTranslation
                           /\ translations' = translations
      ]_vars

----------------------------------------------------------------------------
\* Isolation of failures: the host of a first session with its recognizer,
\* the translation of the captions it receives, and the candidate errors
\* of its connection.

\* a handler that ends the call on a candidate error
candidateErrorEnds(ph) == "ended"

\* pc.onicecandidateerror leaves the phase alone
onicecandidateerror(ph) == ph

\* pc.onicecandidateerror: a candidate could not be gathered (a STUN server
\* is unreachable); setError with the network message.
IceCandidateError(k) ==
    /\ Settled
    /\ pcs[k].made /\ ~pcs[k].closed
    /\ pcs[k].iceGatheringState = "gathering"
    /\ phase' = [phase EXCEPT ![pcs[k].owner] = onicecandidateerror(@)]
    /\ last' = [Step("iceCandidateError", pcs[k].owner, "ok", FALSE)
                   EXCEPT !.setError = "NetworkError"]
    /\ UNCHANGED <<role, isBusy, offerPayload, answerPayload>>
    /\ UNCHANGED <<refVars, recVars, pcs, streams, tasks>>

\* the caption the other party sends in this scenario
EnglishCaption == Stringify(CaptionPayload("hola", "en-US"))

NextI ==
    \/ role[Solo] = "none" /\ FirstSession /\ StartRelay(Solo, "host")
    \/ Event /\ \E t \in TaskIds : MediaGranted(Solo, t)
    \/ Event /\ \E t \in TaskIds : AfterMedia(Solo, t)
    \/ Event /\ phase[Solo] = "waiting-offer" /\ offerPayload[Solo] = EmptyText
             /\ NoTasks(Solo) /\ createOffer(Solo)
    \/ Event /\ phase[Solo] = "waiting-offer" /\ offerPayload[Solo] # EmptyText
             /\ NoTasks(Solo)
             /\ applyRemoteAnswer(Solo, Stringify(AnswerDesc(1)))
    \/ Event /\ \E k \in PcIds : ChainResume(k)
    \/ Event /\ \E k \in PcIds : GatheringComplete(k)
    \/ Event /\ \E k \in PcIds : IceCandidateError(k)
    \/ Event /\ \E t \in TaskIds : Gathered(Solo, t)
    \/ Event /\ \E k \in PcIds, s \in {"checking", "connected"} : IceChange(k, s)
    \/ Event /\ \E k \in PcIds : IceDeliver(k)
    \/ SpeechEffect(Solo)
    \/ \E g \in GenIds : StartTimer(Solo, g)
    \/ \E g \in GenIds : RecognizerEnd(Solo, g)
    \/ \E g \in GenIds : RestartTimer(Solo, g)
    \/ \E g \in GenIds : RecognizerError(Solo, g)
    \/ ChannelMessage(Solo, EnglishCaption)
    \/ TranslationTimeout(Solo)
    \/ \E r \in translations[Solo], ok \in BOOLEAN : TranslationSettled(Solo, r, ok)
    \/ \E l \in TranslationLanguages : handleSetTranslationLanguage(Solo, l)

SpecI == Init /\ [][NextI]_vars

\* the events the call is isolated from
IsolatedOps ==
    {"recognizerError", "recognizerEnd", "restartTimer",
     "translationSettled", "iceCandidateError"}

\* C27: recognizer errors and end events (with the restarts they schedule),
\* translation completions and failures, and candidate errors leave the
\* phase, the role, the offer and answer payloads, the peer connection, the
\* caption channel and the local media unchanged; they set no error, except
\* the candidate error, which sets the error text and changes nothing else.
C27_FailuresIsolated ==
    [][last'.op \in IsolatedOps
          => /\ UNCHANGED <<phase, role, offerPayload, answerPayload>>
             /\ UNCHANGED <<pcRef, dataChannelRef, localStreamRef, pcs, streams>>
             /\ IF last'.op = "iceCandidateError"
                THEN /\ last'.setError = "NetworkError"
                     /\ UNCHANGED <<isBusy, recVars, tasks, relayVars, speechVars>>
                ELSE last'.setError = "none"
      ]_vars

\* a candidate error was reported while the offer was being gathered
C27_Witness ==
    \E p \in Peers :
        /\ last.op = "iceCandidateError" /\ last.peer = p
        /\ last.setError = "NetworkError"
        /\ phase[p] = "waiting-offer" /\ role[p] = "host"
        /\ pcRef[p] # 0 /\ ~pcs[pcRef[p]].closed

----------------------------------------------------------------------------
\* The Signaling Codec: one instance, host or guest of a first session, is
\* given the texts a user may paste: the code of a description, alone or
\* with one more character before and after it.

\* the descriptions a pc of the other party can have made
Descriptions == {OfferDesc(n) : n \in TaskIds} \cup {AnswerDesc(n) : n \in TaskIds}

\* what may surround the code in a pasted text
Pads == {<< >>} \cup {<<c>> : c \in {Space, Bom, Junk, LBrace, RBrace}}

\* the pasted texts that hold the code of description x
Pasted(x) == {pre \o Stringify(x) \o post : pre, post \in Pads}

NextK ==
    \/ Event /\ role[Solo] = "none" /\ FirstSession /\ startAsHost(Solo)
    \/ Event /\ role[Solo] = "none" /\ FirstSession /\ startAsGuest(Solo)
    \/ Event /\ \E t \in TaskIds : MediaGranted(Solo, t)
    \/ Event /\ \E t \in TaskIds : AfterMedia(Solo, t)
    \/ Event /\ phase[Solo] = "waiting-offer" /\ NoTasks(Solo) /\ createOffer(Solo)
    \/ Event /\ phase[Solo] = "waiting-offer" /\ NoTasks(Solo)
             /\ \E x \in Descriptions : \E text \in Pasted(x) :
                    applyRemoteOfferAndCreateAnswer(Solo, text)
    \/ Event /\ phase[Solo] = "waiting-offer" /\ NoTasks(Solo)
             /\ \E x \in Descriptions : \E text \in Pasted(x) :
                    applyRemoteAnswer(Solo, text)
    \/ Event /\ \E k \in PcIds : ChainResume(k)
    \/ Event /\ \E k \in PcIds : GatheringComplete(k)
    \/ Event /\ \E t \in TaskIds : Gathered(Solo, t)
    \/ Event /\ \E k \in PcIds, s \in {"checking", "connected", "disconnected"} :
                    IceChange(k, s)
    \/ Event /\ \E k \in PcIds : IceDeliver(k)
    \/ Event /\ \E k \in PcIds : ChannelAnnounce(k)
    \/ Event /\ RecognitionEffect(Solo)
    \/ Event /\ RecognitionTimer(Solo)

SpecK == Init /\ [][NextK]_vars

\* the call of p suspended by this step
Suspended(p) == {t \in TaskIds : tasks[p][t] = NoTask /\ tasks'[p][t] # NoTask}

\* C28: decoding the text produced by encoding a valid description x yields
\* x, type and body: the payload a call publishes decodes to the local
\* description it was made from, and a call given the code of x goes on
\* with x.
C28_RoundTrip ==
    /\ [](\A x \in Descriptions : DecodePayload(Stringify(x)) = x)
    /\ [][\A p \in Peers :
            /\ offerPayload'[p] # offerPayload[p]
                  => /\ DecodePayload(offerPayload'[p]) = pcs'[pcRef[p]].localDescription
                     /\ pcs'[pcRef[p]].localDescription \in Descriptions
            /\ answerPayload'[p] # answerPayload[p]
                  => /\ DecodePayload(answerPayload'[p]) = pcs'[pcRef[p]].localDescription
                     /\ pcs'[pcRef[p]].localDescription \in Descriptions
            /\ \A x \in Descriptions :
                  (/\ \/ applyRemoteOfferAndCreateAnswer(p, Stringify(x))
                      \/ applyRemoteAnswer(p, Stringify(x))
                   /\ last'.out = "pending")
                      => /\ Suspended(p) # {}
                         /\ \A t \in Suspended(p) : tasks'[p][t].desc = x
         ]_vars

\* the guest has applied the decoded offer and published its answer
C28_Witness ==
    \E p \in Peers :
        /\ role[p] = "guest" /\ pcRef[p] # 0
        /\ pcs[pcRef[p]].remoteDescription \in Descriptions
        /\ answerPayload[p] = Stringify(pcs[pcRef[p]].localDescription)
        /\ pcs[pcRef[p]].localDescription.type = "answer"

\* C29 (as stated): decoding succeeds on every text that holds one JSON
\* object between leading or trailing white space, a byte-order mark or
\* other text, also when that surrounding text contains brace characters:
\* a call given the text does not report an invalid payload and goes on
\* with the description.
C29_DecodesPastedText ==
    [][\A p \in Peers : \A x \in Descriptions : \A text \in Pasted(x) :
          (\/ applyRemoteOfferAndCreateAnswer(p, text)
           \/ applyRemoteAnswer(p, text))
              => /\ last'.setError # "InvalidPayload"
                 /\ last'.out = "pending"
                       => \A t \in Suspended(p) : tasks'[p][t].desc = x
      ]_vars

----------------------------------------------------------------------------
\* Captions from end to end: the two ends of one call (scenario A), each
\* with its recognizer; what one end sends on the caption channel is
\* delivered, in order, to the handler of the other end.

Other(p) == CHOOSE q \in Peers : q # p

\* The message at the head of the channel of pc k reaches the other end:
\* channel.onmessage there (the host's handler from createOffer, the
\* guest's from pc.ondatachannel).
Deliver(k) ==
    /\ pcs[k].made /\ ~pcs[k].closed
    /\ pcs[k].sent # << >>
    /\ ChannelOpen(Other(pcs[k].owner))
    /\ onmessage(Other(pcs[k].owner), Head(pcs[k].sent).data,
                 closureLanguage[Other(pcs[k].owner)], "channelMessage")
    /\ pcs' = [pcs EXCEPT ![k].sent = Tail(@)]

NextD ==
    \/ Event /\ role[Host] = "none" /\ startAsHost(Host)
    \/ Event /\ role[Guest] = "none" /\ startAsGuest(Guest)
    \/ Event /\ \E p \in Peers, t \in TaskIds : MediaGranted(p, t)
    \/ Event /\ \E p \in Peers, t \in TaskIds : AfterMedia(p, t)
    \/ Event /\ phase[Host] = "waiting-offer" /\ offerPayload[Host] = EmptyText
             /\ NoTasks(Host) /\ createOffer(Host)
    \/ Event /\ phase[Guest] = "waiting-offer" /\ offerPayload[Host] # EmptyText
             /\ NoTasks(Guest)
             /\ applyRemoteOfferAndCreateAnswer(Guest, offerPayload[Host])
    \/ Event /\ phase[Host] = "waiting-offer" /\ answerPayload[Guest] # EmptyText
             /\ NoTasks(Host)
             /\ applyRemoteAnswer(Host, answerPayload[Guest])
    \/ Event /\ \E k \in PcIds : ChainResume(k)
    \/ Event /\ \E k \in PcIds : GatheringComplete(k)
    \/ Event /\ \E p \in Peers, t \in TaskIds : Gathered(p, t)
    \/ Event /\ \E k \in PcIds, s \in IceStates : IceChangeA(k, s)
    \/ Event /\ \E k \in PcIds : IceDeliver(k)
    \/ Event /\ \E k \in PcIds : ChannelAnnounce(k)
    \/ \E p \in Peers : SpeechEffect(p)
    \/ \E p \in Peers, g \in GenIds : StartTimer(p, g)
    \/ \E p \in Peers, g \in GenIds, isFinal \in BOOLEAN :
           RecognizerResult(p, g, "hola", isFinal)
    \/ \E p \in Peers, g \in GenIds : \E r \in recognizers[p][g].sendTimers :
           SendRetry(p, g, r)
    \/ \E k \in PcIds : Deliver(k)

\* Promises settle, timers fire and queued events and messages are
\* delivered: a step that can be taken is eventually taken.
SpecD == Init /\ [][NextD]_vars /\ WF_vars(NextD)

\* C30: a caption message one end has put on the open caption channel is
\* consumed by the other end, whichever role that end has: when it is
\* delivered its text becomes the remote caption of the receiver (and its
\* language the remote caption language), and every message sent is
\* eventually delivered and displayed.
C30_CaptionsBothWays ==
    /\ [][\A k \in PcIds :
            Deliver(k)
              => LET payload == JsonParse(Head(pcs[k].sent).data)
                     q == Other(pcs[k].owner)
                 IN  /\ remoteCaption'[q] = payload.text
                     /\ remoteCaptionLanguageRef'[q] = payload.language
                     /\ role[q] # role[pcs[k].owner]
         ]_vars
    /\ \A p \in Peers :
          (\E k \in PcIds : pcs[k].owner = p /\ pcs[k].sent # << >>)
              ~> (remoteCaption[Other(p)] = "hola")

\* each end displays a caption the other end has sent
C30_Witness ==
    /\ remoteCaption[Host] = "hola" /\ remoteCaption[Guest] = "hola"
    /\ role[Host] = "host" /\ role[Guest] = "guest"
    /\ last.op = "channelMessage" /\ last.out = "ok"
    /\ \A k \in PcIds : pcs[k].sent = << >>

----------------------------------------------------------------------------
\* The transport and the phase: one instance, host or guest, with the codes
\* of the other party; the transport reports its state at any time, also
\* while a call is suspended, and the user may start again with the role
\* held.

NextT ==
    \/ Event /\ role[Solo] \in {"none", "host"} /\ NoTasks(Solo) /\ startAsHost(Solo)
    \/ Event /\ role[Solo] \in {"none", "guest"} /\ NoTasks(Solo) /\ startAsGuest(Solo)
    \/ Event /\ \E t \in TaskIds : MediaGranted(Solo, t)
    \/ Event /\ \E t \in TaskIds : AfterMedia(Solo, t)
    \/ Event /\ NoTasks(Solo) /\ createOffer(Solo)
    \/ Event /\ NoTasks(Solo)
             /\ applyRemoteOfferAndCreateAnswer(Solo, Stringify(OfferDesc(1)))
    \/ Event /\ NoTasks(Solo) /\ applyRemoteAnswer(Solo, Stringify(AnswerDesc(1)))
    \/ Event /\ \E k \in PcIds : ChainResume(k)
    \/ Event /\ \E k \in PcIds : GatheringComplete(k)
    \/ Event /\ \E t \in TaskIds : Gathered(Solo, t)
    \/ Event /\ \E k \in PcIds, s \in IceStates : IceChange(k, s)
    \/ Event /\ \E k \in PcIds : IceDeliver(k)
    \/ Event /\ \E k \in PcIds : ChannelAnnounce(k)
    \/ Event /\ RecognitionEffect(Solo)
    \/ Event /\ RecognitionTimer(Solo)

SpecT == Init /\ [][NextT]_vars

\* the call of p that ends with this step
Finished(p) == {t \in TaskIds : tasks[p][t] # NoTask /\ tasks'[p][t] = NoTask}

\* C31: when applyRemoteOfferAndCreateAnswer completes on a connection whose
\* transport state is connected or completed (reported while the call was
\* suspended), the phase afterwards is "connected", not "waiting-answer";
\* and applyRemoteAnswer called by a host whose remote description is
\* applied and whose transport is connected or completed leaves the phase
\* "connected".
C31_ConnectedShortCircuit ==
    [][\A p \in Peers :
          /\ \A t \in Finished(p) :
                (/\ last'.op = "applyOffer" /\ last'.out = "ok"
                 /\ IsIceUp(pcs[tasks[p][t].pc].iceConnectionState))
                    => phase'[p] = "connected"
          /\ (/\ applyRemoteAnswer(p, Stringify(AnswerDesc(1)))
              /\ role[p] = "host"
              /\ PcOf(p).remoteDescription # NoDesc
              /\ IsIceUp(PcOf(p).iceConnectionState))
                => phase'[p] = "connected"
      ]_vars

\* the guest's call completed after the transport had reported connected
C31_Witness ==
    \E p \in Peers :
        /\ last = Step("applyOffer", p, "ok", FALSE)
        /\ role[p] = "guest" /\ phase[p] = "connected"
        /\ pcRef[p] # 0 /\ IsIceUp(pcs[pcRef[p]].iceConnectionState)
        /\ answerPayload[p] # EmptyText

\* C32 (as stated): within a session the only transition out of "connected"
\* is to "ended": no step other than a hang-up moves the phase from
\* "connected" to "idle", "media-ready", "waiting-offer" or "waiting-answer".
C32_ConnectedOnlyToEnded ==
    [][\A p \in Peers :
          (phase[p] = "connected" /\ phase'[p] # "connected" /\ last'.op # "hangUp")
              => phase'[p] = "ended"
      ]_vars

----------------------------------------------------------------------------
\* the timers pending are the one translationTimeoutRef holds, if any
HeldTimers(p) ==
    IF translationTimeoutRef[p] = NoTimer THEN {} ELSE {translationTimeoutRef[p]}

----------------------------------------------------------------------------
\* C34 (as stated): when the target language is changed while a non-empty
\* remote caption is known, whose language differs from the new target, a
\* translation of that caption into the new target is scheduled by the
\* change itself; and when a response arrives and leaves no request and no
\* timer outstanding, the translation displayed is the one for the target
\* language selected (none, when the target is the language of the app).
C34_RetranslatedOnChange ==
    [][\A p \in Peers :
          /\ \A l \in TranslationLanguages :
                (/\ handleSetTranslationLanguage(p, l)
                 /\ remoteCaption[p] # ""
                 /\ Differs(remoteCaptionLanguageRef[p], l))
                    => translationTimeoutRef'[p] =
                           [text |-> remoteCaption[p],
                            src |-> remoteCaptionLanguageRef[p], tgt |-> l]
          /\ \A r \in translations[p] :
                (/\ TranslationSettled(p, r, TRUE)
                 /\ translations'[p] = {} /\ debounceTimers'[p] = {})
                    => \/ remoteCaptionTranslated'[p].lang = translationLanguage[p]
                       \/ /\ translationLanguage[p] = "en"
                          /\ remoteCaptionTranslated'[p] = NoTranslation
      ]_vars

----------------------------------------------------------------------------
\* The capture loop: the host of a first session stays connected; its
\* recognizer reports errors, ends and is restarted by its timers.

\* a handler for which no error is transient
isTransientNever(errorType) == FALSE

\* recognition.onerror returns without stopping for these errors
isTransient(errorType) ==
    errorType \in {"network", "no-speech", "aborted", "audio-capture"}

\* (event as any).error
ErrorTypes ==
    {"network", "no-speech", "aborted", "audio-capture", "not-allowed",
     "service-not-allowed"}

\* recognition.onerror of generation g
onerror(p, g, errorType) ==
    IF isTransient(errorType)
    THEN /\ Settled
         /\ recognizers[p][g].active /\ recognizers[p][g].handlers
         /\ last' = Step("recognizerError", p, "transient", FALSE)
         /\ UNCHANGED <<hookVars, refVars, recVars, pcs, streams, tasks, nCalls>>
         /\ UNCHANGED <<relayVars, speechVars>>
    ELSE RecognizerError(p, g)

\* A timer of onend whose recognition.start() throws: the catch block
\* releases the reference and schedules nothing.
RestartFailed(p, g) ==
    /\ Settled
    /\ recognizers[p][g].restartTimer # "none"
    /\ isCurrentRecognizer(recognitionRef[p], g)
    /\ recognizers[p][g].restartTimer = "restart" => verifyMicrophone(p)
    /\ recognizers' = [recognizers EXCEPT ![p][g].restartTimer = "none"]
    /\ recognitionRef' = [recognitionRef EXCEPT ![p] = 0]
    /\ last' = Step(IF recognizers[p][g].restartTimer = "restart"
                    THEN "restartTimer" ELSE "lateRestart", p, "fail", FALSE)
    /\ UNCHANGED <<hookVars, refVars, effectPhase, recTimer, pcs, streams,
                   tasks, nCalls>>
    /\ UNCHANGED <<relayVars, captionsLanguage, localCaption, nResults>>

NextL ==
    \/ Event /\ role[Solo] = "none" /\ FirstSession /\ startAsHost(Solo)
    \/ Event /\ \E t \in TaskIds : MediaGranted(Solo, t)
    \/ Event /\ \E t \in TaskIds : AfterMedia(Solo, t)
    \/ Event /\ phase[Solo] = "waiting-offer" /\ offerPayload[Solo] = EmptyText
             /\ NoTasks(Solo) /\ createOffer(Solo)
    \/ Event /\ phase[Solo] = "waiting-offer" /\ offerPayload[Solo] # EmptyText
             /\ NoTasks(Solo)
             /\ applyRemoteAnswer(Solo, Stringify(AnswerDesc(1)))
    \/ Event /\ \E k \in PcIds : ChainResume(k)
    \/ Event /\ \E k \in PcIds : GatheringComplete(k)
    \/ Event /\ \E t \in TaskIds : Gathered(Solo, t)
    \/ Event /\ \E k \in PcIds, s \in {"checking", "connected"} : IceChange(k, s)
    \/ Event /\ \E k \in PcIds : IceDeliver(k)
    \/ recognitionRef[Solo] # 0 /\ TrackEnded(Solo)
    \/ HangUpSpeech(Solo)
    \/ SpeechEffect(Solo)
    \/ \E l \in SpeechLanguages : setCaptionsLanguage(Solo, l)
    \/ \E g \in GenIds : StartTimer(Solo, g)
    \/ \E g \in GenIds : RecognizerEnd(Solo, g)
    \/ \E g \in GenIds : RestartTimer(Solo, g)
    \/ \E g \in GenIds : LateRestart(Solo, g)
    \/ \E g \in GenIds : RestartFailed(Solo, g)
    \/ \E g \in GenIds, e \in ErrorTypes : onerror(Solo, g, e)

\* The effect runs after the commit and a timer that was set fires; the
\* user, the transport and the recognizer are under no obligation.
SpecL ==
    /\ Init /\ [][NextL]_vars
    /\ WF_vars(SpeechEffect(Solo))
    /\ WF_vars(\E g \in GenIds : StartTimer(Solo, g))
    /\ WF_vars(\E g \in GenIds :
                  RestartTimer(Solo, g) \/ LateRestart(Solo, g) \/ RestartFailed(Solo, g))

\* recognizer g is stopped for good: detached, not recognising, no timer
Released(p, g) ==
    /\ recognizers[p][g].made
    /\ ~recognizers[p][g].handlers /\ ~recognizers[p][g].active
    /\ recognizers[p][g].startTimer = "none"
    /\ recognizers[p][g].restartTimer = "none"
    /\ recognitionRef[p] # g

\* C35: a transient error (no-speech, aborted, network) leaves the
\* recognizer installed, attached and recognising, so that its end event
\* schedules the restart; a permanent error (not-allowed) releases the
\* recognizer and clears the local caption, and a recognizer so released
\* has no handler and no timer left: no later step starts it again.
C35_ErrorsTransientOrFinal ==
    [][\A p \in Peers, g \in GenIds :
          /\ \A e \in {"no-speech", "aborted", "network"} :
                onerror(p, g, e)
                    => /\ recognitionRef'[p] = recognitionRef[p]
                       /\ recognitionRef'[p] = g
                       /\ recognizers'[p][g] = recognizers[p][g]
                       /\ localCaption'[p] = localCaption[p]
          /\ (RecognizerEnd(p, g) /\ recognizers[p][g].handlers /\ recognitionRef[p] = g)
                => recognizers'[p][g].restartTimer = "restart"
          /\ onerror(p, g, "not-allowed")
                => /\ recognitionRef'[p] = 0
                   /\ localCaption'[p] = ""
                   /\ Released(p, g)'
          /\ Released(p, g) => Released(p, g)'
      ]_vars

\* the recognizer was released by a permanent error while connected and
\* showing a caption
C35_Witness ==
    \E p \in Peers, g \in GenIds :
        /\ last = Step("recognizerError", p, "ok", FALSE)
        /\ phase[p] = "connected" /\ effectPhase[p] = "connected"
        /\ Released(p, g) /\ recognitionRef[p] = 0
        /\ localCaption[p] = ""

\* C36 (as stated): while the phase stays "connected" (and the microphone
\* live), an end of the recognizer stream that its handler sees (no
\* permanent error has detached it) is eventually followed by a recognizer
\* that is recognising again, also when a restart attempt fails.
C36_LoopRestarts ==
    \A p \in Peers :
        (last.op = "recognizerEnd" /\ last.peer = p /\ phase[p] = "connected")
            ~> (ActiveGens(p) # {} \/ phase[p] # "connected" \/ ~verifyMicrophone(p))

----------------------------------------------------------------------------
\* The gathering wait: one instance, host or guest, with the offer of the
\* other party; the user may hang up at any time, also while a call is
\* suspended, and start again.

\* no call of p is in flight in the session p is in
NoLiveTasks(p) == \A t \in TaskIds : tasks[p][t] = NoTask \/ tasks[p][t].hung

NextG ==
    \/ Event /\ role[Solo] = "none" /\ NoLiveTasks(Solo) /\ startAsHost(Solo)
    \/ Event /\ role[Solo] = "none" /\ NoLiveTasks(Solo) /\ startAsGuest(Solo)
    \/ Event /\ \E t \in TaskIds : MediaGranted(Solo, t)
    \/ Event /\ \E t \in TaskIds : AfterMedia(Solo, t)
    \/ Event /\ NoLiveTasks(Solo) /\ createOffer(Solo)
    \/ Event /\ NoLiveTasks(Solo)
             /\ applyRemoteOfferAndCreateAnswer(Solo, Stringify(OfferDesc(1)))
    \/ Event /\ hangUp(Solo)
    \/ Event /\ \E k \in PcIds : ChainResume(k)
    \/ Event /\ \E k \in PcIds : ChainReject(k)
    \/ Event /\ \E k \in PcIds : GatheringComplete(k)
    \/ Event /\ \E t \in TaskIds : Gathered(Solo, t)
    \/ Event /\ RecognitionEffect(Solo)

\* The operations of an open pc settle, the transport of an open pc reports
\* that gathering is complete, and continuations and effects run.
SpecG ==
    /\ Init /\ [][NextG]_vars
    /\ WF_vars(Event /\ \E t \in TaskIds : AfterMedia(Solo, t))
    /\ WF_vars(Event /\ RecognitionEffect(Solo))
    /\ WF_vars(Event /\ \E k \in PcIds : ChainResume(k))
    /\ WF_vars(Event /\ \E k \in PcIds : GatheringComplete(k))
    /\ WF_vars(Event /\ \E t \in TaskIds : Gathered(Solo, t))

\* call t of p is createOffer or applyRemoteOfferAndCreateAnswer, past its
\* guards
Negotiating(p, t) == tasks[p][t].op \in {"createOffer", "applyOffer"}

\* the payload a call of that kind publishes
PayloadOf(p, op) == IF op = "createOffer" THEN offerPayload[p] ELSE answerPayload[p]

\* C37: a createOffer or applyRemoteOfferAndCreateAnswer that passed its
\* guards on a pc that stays open ends with its payload published and
\* isBusy false; a call in the gathering wait leaves the wait only by the
\* icegatheringstatechange event of its pc, and a call whose pc was closed
\* during the wait stays in the wait.
C37_GatheringWait ==
    /\ \A p \in Peers, t \in TaskIds, op \in {"createOffer", "applyOffer"} :
          (tasks[p][t].op = op /\ ~pcs[tasks[p][t].pc].closed)
              ~> \/ /\ tasks[p][t] = NoTask
                    /\ last.op = op /\ last.peer = p /\ last.out = "ok"
                    /\ PayloadOf(p, op) # EmptyText
                    /\ ~isBusy[p]
                 \/ Negotiating(p, t) /\ pcs[tasks[p][t].pc].closed
    /\ [][\A p \in Peers, t \in TaskIds :
             (Negotiating(p, t) /\ tasks[p][t].at = "gather")
                 => /\ tasks'[p][t].at = "gather"
                       \/ /\ tasks'[p][t].at = "gathered"
                          /\ last'.op = "gatheringComplete"
                          /\ ~pcs[tasks[p][t].pc].closed
                    /\ pcs[tasks[p][t].pc].closed => tasks'[p][t] = tasks[p][t]
       ]_vars

\* hang-up closed the pc of a call that was in the gathering wait
C37_Witness ==
    \E p \in Peers, t \in TaskIds :
        /\ Negotiating(p, t) /\ tasks[p][t].at = "gather"
        /\ tasks[p][t].hung
        /\ pcs[tasks[p][t].pc].closed
        /\ role[p] = "none" /\ ~isBusy[p]

----------------------------------------------------------------------------
\* call t of p is suspended in the session p is in: startLocalMedia at
\* getUserMedia, or a signaling call at one of its awaits
InFlight(p, t) ==
    /\ tasks[p][t] # NoTask
    /\ ~tasks[p][t].hung
    /\ tasks[p][t].at # "afterMedia"

\* C38 (as stated): isBusy is true in every state in which a call of
\* startLocalMedia, createOffer, applyRemoteOfferAndCreateAnswer or
\* applyRemoteAnswer of the session is suspended, also when calls overlap:
\* a step other than a hang-up leaves isBusy true while a call is suspended.
C38_BusyWhileSuspended ==
    [][\A p \in Peers :
          (last'.op # "hangUp" /\ \E t \in TaskIds : InFlight(p, t)')
              => isBusy'[p]
      ]_vars

----------------------------------------------------------------------------
\* no start, retry or restart timer of p is pending
NoRecognizerTimers(p) ==
    \A g \in GenIds :
        recognizers[p][g].startTimer = "none" /\ recognizers[p][g].restartTimer = "none"

\* C39 (as stated): once the timers have fired, a recognizer that is active
\* while connected has the captions language of the instance: after
\* setCaptionsLanguage no start or restart timer scheduled before the change
\* installs or keeps a recognizer built with the old language.
C39_ActiveHasNewLanguage ==
    [][\A p \in Peers, g \in GenIds :
          (/\ phase'[p] = "connected" /\ effectPhase'[p] = "connected"
           /\ NoRecognizerTimers(p)'
           /\ recognizers'[p][g].active)
              => recognizers'[p][g].lang = captionsLanguage'[p]
      ]_vars

----------------------------------------------------------------------------
\* Hang-up and the translation of the remote caption.

\* hangUp on an instance that relays captions: cleanupPeerConnection() ends
\* with stopRecognition(); resetState() clears the captions and the
\* displayed translation, resets remoteCaptionLanguageRef and clears the
\* timer translationTimeoutRef holds.  The translation effect that follows
\* setRemoteCaption("") clears the displayed translation again.  A request
\* in flight and isTranslating are not touched.
HangUpRelay(p) ==
    /\ hangUp(p)
    /\ nCalls' = nCalls
    /\ recognizers' =
           [recognizers EXCEPT ![p] = StopRecognizer(@, recognitionRef[p])]
    /\ localCaption' = [localCaption EXCEPT ![p] = ""]
    /\ remoteCaption' = [remoteCaption EXCEPT ![p] = ""]
    /\ remoteCaptionTranslated' = [remoteCaptionTranslated EXCEPT ![p] = NoTranslation]
    /\ remoteCaptionLanguageRef' = [remoteCaptionLanguageRef EXCEPT ![p] = "en-US"]
    /\ debounceTimers' = [debounceTimers EXCEPT ![p] = @ \ {translationTimeoutRef[p]}]
    /\ translationTimeoutRef' = [translationTimeoutRef EXCEPT ![p] = NoTimer]
    /\ UNCHANGED <<translationLanguage, isTranslating, translations,
                   closureLanguage, nIssued, nMessages>>
    /\ UNCHANGED <<captionsLanguage, nResults>>

\* The host of a first session receives captions and hangs up.
NextH ==
    \/ FirstSession /\ StartRelay(Solo, "host")
    \/ Event /\ \E t \in TaskIds : MediaGranted(Solo, t)
    \/ Event /\ \E t \in TaskIds : AfterMedia(Solo, t)
    \/ Event /\ phase[Solo] = "waiting-offer" /\ offerPayload[Solo] = EmptyText
             /\ NoTasks(Solo) /\ createOffer(Solo)
    \/ Event /\ phase[Solo] = "waiting-offer" /\ offerPayload[Solo] # EmptyText
             /\ NoTasks(Solo)
             /\ applyRemoteAnswer(Solo, Stringify(AnswerDesc(1)))
    \/ Event /\ \E k \in PcIds : ChainResume(k)
    \/ Event /\ \E k \in PcIds : GatheringComplete(k)
    \/ Event /\ \E t \in TaskIds : Gathered(Solo, t)
    \/ Event /\ NoTasks(Solo)
             /\ \E k \in PcIds, s \in {"checking", "connected"} : IceChange(k, s)
    \/ Event /\ \E k \in PcIds : IceDeliver(k)
    \/ Event /\ RecognitionEffect(Solo)
    \/ Event /\ RecognitionTimer(Solo)
    \/ \E body \in MessageInputs : ChannelMessage(Solo, body)
    \/ TranslationTimeout(Solo)
    \/ \E r \in translations[Solo], ok \in BOOLEAN : TranslationSettled(Solo, r, ok)
    \/ \E l \in TranslationLanguages : handleSetTranslationLanguage(Solo, l)
    \/ HangUpRelay(Solo)

SpecH == Init /\ [][NextH]_vars

\* p hung up and has not started a session since
AfterHangUp(p) ==
    /\ role[p] = "none"
    /\ \E k \in PcIds : pcs[k].made /\ pcs[k].owner = p /\ pcs[k].closed

\* C40 (as stated): after hangUp the displayed translation stays empty and
\* isTranslating stays false: no debounce timer is pending, and a
\* translation request that was in flight at the hang-up does not write its
\* result when it settles.
C40_QuietAfterHangUp ==
    [][\A p \in Peers :
          AfterHangUp(p)'
              => /\ remoteCaptionTranslated'[p] = NoTranslation
                 /\ ~isTranslating'[p]
                 /\ debounceTimers'[p] = {}
      ]_vars

====
